---------------------------- MODULE Spec2Model ----------------------------
(***************************************************************************)
(* A model of the Secret Angel Telegram bot (src/bot.js, src/security.js,  *)
(* src/rateLimit.js): the grouping and restricted-matching functions, the  *)
(* per-chat conversation state, the handlers of the bot and the store they *)
(* share through one pg Client.                                            *)
(***************************************************************************)
EXTENDS Integers, Sequences, FiniteSets, TLC

VARIABLES
    gp,             \* one call of assignParticipantsToGroups: arguments and outcome
    sa,             \* one call of assignSecretAngels: arguments, loop locals, outcome
    vr,             \* one call of validateRestrictionsInput: arguments and outcome
    rl,             \* rateLimit.js 6: the clock, rateLimitStore and the last call
    ADMIN_USER_ID,  \* bot.js 35: the configured admin, 0 when not configured
    userState,      \* bot.js 339: the conversation state of each chat
    queryQueue,     \* the client's queue: the pending query of each handler in flight
    db,             \* the tables and sequences as the client's session sees them
    txn,            \* the client's session: its open transaction, if any
    runs,           \* history: the number of runs started
    sent,           \* the messages sent by the last step
    finished,       \* history: the run whose handler ended in the last step
    event           \* history: what the last step handled

pureVars == <<gp, sa, vr, rl>>
botVars ==
    <<ADMIN_USER_ID, userState, queryQueue, db, txn, runs, sent, finished, event>>
vars ==
    <<gp, sa, vr, rl, ADMIN_USER_ID, userState, queryQueue, db, txn, runs, sent, finished,
      event>>

(***************************************************************************)
(* Bounds of the model and the universe of participant names.              *)
(***************************************************************************)
NameList == <<"Alice", "Bob", "Carol", "Dave", "Eve">>

MaxParticipants == 4    \* longest participant list handed to grouping
MaxGroupSize == 4       \* largest group handed to matching
MaxRestrictions == 1    \* longest restriction list handed to matching

\* The names restriction pairs are drawn from.
RestrictionNames == {"Alice", "Bob", "Carol"}

\* Pairs as validateRestrictionsInput (security.js 121-135) lets them through:
\* two names, different from each other, in the order written.
RestrictionPairs ==
    {p \in RestrictionNames \X RestrictionNames : p[1] # p[2]}

Min(a, b) == IF a < b THEN a ELSE b

Range(s) == {s[i] : i \in 1..Len(s)}

FirstNames(k) == {NameList[i] : i \in 1..Min(k, Len(NameList))}

\* All lists without duplicates over the set S.
DistinctSeqs(S) ==
    UNION {{s \in [1..k -> S] : \A i, j \in 1..k : s[i] = s[j] => i = j} :
           k \in 0..Cardinality(S)}

\* All lists over S of length at most k.
SeqsUpTo(S, k) == UNION {[1..n -> S] : n \in 0..k}

(***************************************************************************)
(* shuffle (bot.js 203-208): Fisher-Yates, i from length-1 down to 1, with *)
(* j = crypto.randomInt(0, i + 1).  The random source is the argument rnd, *)
(* a function giving for each i the j that was drawn; indices are the      *)
(* code's 0-based ones.                                                    *)
(***************************************************************************)
RandomInts(n) ==
    {r \in [1..(n - 1) -> 0..(n - 1)] : \A i \in 1..(n - 1) : r[i] <= i}

Swap(array, i, j) ==
    [k \in 1..Len(array) |->
        IF k = i + 1 THEN array[j + 1]
        ELSE IF k = j + 1 THEN array[i + 1]
        ELSE array[k]]

RECURSIVE shuffleFrom(_, _, _)
shuffleFrom(array, i, rnd) ==
    IF i <= 0 THEN array
    ELSE shuffleFrom(Swap(array, i, rnd[i]), i - 1, rnd)

shuffle(array, rnd) == shuffleFrom(array, Len(array) - 1, rnd)

(***************************************************************************)
(* assignParticipantsToGroups (bot.js 216-251).  The result records        *)
(* whether the call threw, the groups returned, and the caller's array as  *)
(* the call leaves it.                                                     *)
(***************************************************************************)
\* Array.prototype.slice(start, end) with the end clamped to the length.
slice(array, start, end) == SubSeq(array, start + 1, Min(end, Len(array)))

\* groupsLoop with the extra members given to the last groups instead of the first.
RECURSIVE groupsLoopExtraLast(_, _, _, _, _, _)
groupsLoopExtraLast(shuffledParticipants, P, numGroups, i, startIndex, groups) ==
    IF ~(i < numGroups) THEN groups
    ELSE
        LET baseParticipantsPerGroup == P \div numGroups
            remainder == P % numGroups
            groupSize == baseParticipantsPerGroup
                         + (IF i >= numGroups - remainder THEN 1 ELSE 0)
            group == SubSeq(shuffledParticipants, startIndex + 1,
                            IF startIndex + groupSize < Len(shuffledParticipants)
                            THEN startIndex + groupSize
                            ELSE Len(shuffledParticipants))
        IN  groupsLoopExtraLast(shuffledParticipants, P, numGroups, i + 1,
                                startIndex + groupSize,
                                IF Len(group) > 0 THEN Append(groups, group)
                                ELSE groups)

RECURSIVE groupsLoop(_, _, _, _, _, _)
groupsLoop(shuffledParticipants, P, numGroups, i, startIndex, groups) ==
    IF ~(i < numGroups) THEN groups
    ELSE
        LET baseParticipantsPerGroup == P \div numGroups
            remainder == P % numGroups
            size0 == baseParticipantsPerGroup + (IF i < remainder THEN 1 ELSE 0)
            groupSize == IF size0 = 0 /\ P > 0 THEN 1 ELSE size0
            group == slice(shuffledParticipants, startIndex, startIndex + groupSize)
        IN  groupsLoop(shuffledParticipants, P, numGroups, i + 1,
                       startIndex + groupSize,
                       IF Len(group) > 0 THEN Append(groups, group) ELSE groups)

\* assignParticipantsToGroups with the group count checked before the empty list.
assignParticipantsToGroupsCountFirst(participants, numGroups, rnd) ==
    IF numGroups < 1
    THEN [threw |-> TRUE, error |-> "Number of groups must be at least 1.",
          groups |-> <<>>, participants |-> participants]
    ELSE IF Len(participants) = 0
    THEN [threw |-> FALSE, error |-> "", groups |-> <<>>, participants |-> participants]
    ELSE IF numGroups > Len(participants)
    THEN [threw |-> TRUE,
          error |-> "Number of groups cannot exceed the number of participants.",
          groups |-> <<>>, participants |-> participants]
    ELSE [threw |-> FALSE, error |-> "",
          groups |-> groupsLoop(shuffle(participants, rnd), Len(participants),
                                numGroups, 0, 0, <<>>),
          participants |-> participants]

assignParticipantsToGroups(participants, numGroups, rnd) ==
    IF Len(participants) = 0
    THEN [threw |-> FALSE, error |-> "", groups |-> <<>>, participants |-> participants]
    ELSE IF numGroups < 1
    THEN [threw |-> TRUE, error |-> "Number of groups must be at least 1.",
          groups |-> <<>>, participants |-> participants]
    ELSE IF numGroups > Len(participants)
    THEN [threw |-> TRUE,
          error |-> "Number of groups cannot exceed the number of participants.",
          groups |-> <<>>, participants |-> participants]
    ELSE
        LET shuffledParticipants == shuffle(participants, rnd)
            groups == groupsLoop(shuffledParticipants, Len(participants),
                                 numGroups, 0, 0, <<>>)
        IN  [threw |-> FALSE, error |-> "",
             groups |-> SelectSeq(groups, LAMBDA g : Len(g) > 0),
             participants |-> participants]

(***************************************************************************)
(* isRestricted (bot.js 260-271): a pair of the list, of length 2, that is *)
(* (giver, receiver) in one of the two orders.                             *)
(***************************************************************************)
\* isRestricted comparing the pair in the order written only.
isRestrictedOneWay(giver, receiver, restrictions) ==
    \E k \in 1..Len(restrictions) :
        /\ Len(restrictions[k]) = 2
        /\ restrictions[k][1] = giver
        /\ restrictions[k][2] = receiver

isRestricted(giver, receiver, restrictions) ==
    \E k \in 1..Len(restrictions) :
        LET pair == restrictions[k]
        IN  /\ Len(pair) = 2
            /\ \/ (pair[1] = giver /\ pair[2] = receiver)
               \/ (pair[1] = receiver /\ pair[2] = giver)

(***************************************************************************)
(* One attempt of assignSecretAngels (bot.js 298-323): the for loop over   *)
(* the shuffled group, leaving at the first self-assignment or restricted  *)
(* pair.                                                                   *)
(***************************************************************************)
\* The loop that pairs the shuffled group two by two: each gives to the
\* neighbour of the pair, the last of an odd group to the first.
RECURSIVE matchLoopInPairs(_, _, _, _)
matchLoopInPairs(shuffledGroup, restrictions, i, potentialMatches) ==
    LET n == Len(shuffledGroup) IN
    IF ~(i < n) THEN [isValid |-> TRUE, potentialMatches |-> potentialMatches]
    ELSE
        LET giver == shuffledGroup[i + 1]
            receiver == shuffledGroup[IF i % 2 = 1 THEN i
                                      ELSE IF i + 2 <= n THEN i + 2 ELSE 1]
        IN  IF giver = receiver
            THEN [isValid |-> FALSE, potentialMatches |-> potentialMatches]
            ELSE IF isRestricted(giver, receiver, restrictions)
            THEN [isValid |-> FALSE, potentialMatches |-> potentialMatches]
            ELSE matchLoopInPairs(shuffledGroup, restrictions, i + 1,
                                  Append(potentialMatches,
                                         [giver |-> giver, receiver |-> receiver]))

RECURSIVE matchLoop(_, _, _, _)
matchLoop(shuffledGroup, restrictions, i, potentialMatches) ==
    LET n == Len(shuffledGroup) IN
    IF ~(i < n) THEN [isValid |-> TRUE, potentialMatches |-> potentialMatches]
    ELSE
        LET giver == shuffledGroup[i + 1]
            receiver == shuffledGroup[((i + 1) % n) + 1]
        IN  IF giver = receiver
            THEN [isValid |-> FALSE, potentialMatches |-> potentialMatches]
            ELSE IF isRestricted(giver, receiver, restrictions)
            THEN [isValid |-> FALSE, potentialMatches |-> potentialMatches]
            ELSE matchLoop(shuffledGroup, restrictions, i + 1,
                           Append(potentialMatches,
                                  [giver |-> giver, receiver |-> receiver]))

\* An attempt whose loop never consults the restrictions.
attemptUnrestricted(group, restrictions, rnd) ==
    matchLoop(shuffle(group, rnd), <<>>, 0, <<>>)

attempt(group, restrictions, rnd) ==
    matchLoop(shuffle(group, rnd), restrictions, 0, <<>>)

maxRetries == 100

\* The Error of bot.js 332 without the group in its message.
matchErrorAnonymous(group) ==
    [message |-> "Could not find a valid assignment", group |-> <<>>,
     attempts |-> maxRetries]

\* The Error thrown at bot.js 332: its message names the group and the bound.
matchError(group) ==
    [message |-> "Could not find a valid assignment", group |-> group,
     attempts |-> maxRetries]

NoError == [message |-> "", group |-> <<>>, attempts |-> 0]

(***************************************************************************)
(* The calls of the two functions, one initial state per argument list.    *)
(***************************************************************************)
GpIdle == [pc |-> "idle", args |-> <<>>, participants |-> <<>>, numGroups |-> 0,
           threw |-> FALSE, error |-> "", groups |-> <<>>]

SaIdle == [pc |-> "idle", group |-> <<>>, restrictions |-> <<>>, attempts |-> 0,
           isValid |-> FALSE, result |-> <<>>, error |-> NoError]

VrIdle == [pc |-> "idle", input |-> <<>>, validParticipants |-> {},
           result |-> [null |-> TRUE]]

(***************************************************************************)
(* The rate limiter (src/rateLimit.js).  A Map is the function from the    *)
(* keys it holds to their values; now is the value of Date.now().          *)
(***************************************************************************)
RATE_LIMIT_WINDOW == 60 * 1000
RATE_LIMIT_MAX_REQUESTS == 10

EmptyMap == [k \in {} |-> TRUE]

\* map.set(key, value)
MapSet(map, key, value) ==
    [k \in DOMAIN map \cup {key} |-> IF k = key THEN value ELSE map[k]]

\* `user:${userId}`
UserKey(userId) == <<"user:", userId>>

\* isRateLimited with a window that every call restarts.
isRateLimitedExtending(rateLimitStore, userId, now) ==
    LET userKey == UserKey(userId)
    IN  IF \/ userKey \notin DOMAIN rateLimitStore
           \/ rateLimitStore[userKey].resetTime <= now
        THEN [limited |-> FALSE,
              rateLimitStore |->
                  MapSet(rateLimitStore, userKey,
                         [count |-> 1, resetTime |-> now + RATE_LIMIT_WINDOW])]
        ELSE LET userData == [count |-> rateLimitStore[userKey].count + 1,
                              resetTime |-> now + RATE_LIMIT_WINDOW]
             IN  [limited |-> userData.count > RATE_LIMIT_MAX_REQUESTS,
                  rateLimitStore |-> MapSet(rateLimitStore, userKey, userData)]

\* rateLimit.js 17-40: the answer of isRateLimited(userId) at the time now,
\* and the store it leaves.
isRateLimited(rateLimitStore, userId, now) ==
    LET userKey == UserKey(userId)
    IN  IF \/ userKey \notin DOMAIN rateLimitStore
           \/ rateLimitStore[userKey].resetTime <= now
        THEN [limited |-> FALSE,
              rateLimitStore |->
                  MapSet(rateLimitStore, userKey,
                         [count |-> 1, resetTime |-> now + RATE_LIMIT_WINDOW])]
        ELSE LET userData == [rateLimitStore[userKey] EXCEPT !.count = @ + 1]
             IN  [limited |-> userData.count > RATE_LIMIT_MAX_REQUESTS,
                  rateLimitStore |-> MapSet(rateLimitStore, userKey, userData)]

\* rateLimit.js 45-53: the store that cleanupRateLimitStore() leaves at the
\* time now.
cleanupRateLimitStore(rateLimitStore, now) ==
    [k \in {x \in DOMAIN rateLimitStore : ~(rateLimitStore[x].resetTime <= now)}
        |-> rateLimitStore[k]]

\* History of the calls: for each user, the time of the first admitted call
\* of the window the user is in and the number of calls admitted since; a
\* call admitted RATE_LIMIT_WINDOW or more after that time is the first of
\* a new window.
recordCall(windows, userId, now, limited) ==
    IF limited THEN windows
    ELSE IF \/ userId \notin DOMAIN windows
            \/ now >= windows[userId].first + RATE_LIMIT_WINDOW
    THEN MapSet(windows, userId, [first |-> now, admitted |-> 1])
    ELSE MapSet(windows, userId, [windows[userId] EXCEPT !.admitted = @ + 1])

\* The process at its start: the store is empty (rateLimit.js 6).
RlIdle ==
    [now |-> 0, ticks |-> 0, rateLimitStore |-> EmptyMap, op |-> "none",
     userId |-> 0, limited |-> FALSE, windows |-> EmptyMap]

\* The limiter r after a call of isRateLimited(userId).
RlCalled(r, userId) ==
    LET a == isRateLimited(r.rateLimitStore, userId, r.now)
    IN  [r EXCEPT !.rateLimitStore = a.rateLimitStore,
                  !.op = "call", !.userId = userId, !.limited = a.limited,
                  !.windows = recordCall(@, userId, r.now, a.limited)]

GpInputs ==
    {[pc |-> "called", args |-> p, participants |-> p, numGroups |-> n,
      threw |-> FALSE, error |-> "", groups |-> <<>>] :
        p \in DistinctSeqs(FirstNames(MaxParticipants)),
        n \in (-1)..(MaxParticipants + 1)}

\* assignParticipantsToGroups runs from its entry to its return or throw.
GpCall ==
    /\ gp.pc = "called"
    /\ \E rnd \in RandomInts(Len(gp.participants)) :
          LET r == assignParticipantsToGroups(gp.participants, gp.numGroups, rnd)
          IN  gp' = [gp EXCEPT !.pc = IF r.threw THEN "threw" ELSE "returned",
                               !.participants = r.participants,
                               !.threw = r.threw,
                               !.error = r.error,
                               !.groups = r.groups]
    /\ UNCHANGED <<sa, vr, rl, botVars>>

NextGrouping == GpCall

\* Groups handed to matching: the first k names; restrictions: any pairs of names.
SaInputs ==
    {[SaIdle EXCEPT !.pc = "called", !.group = SubSeq(NameList, 1, k),
                    !.restrictions = r] :
        k \in 0..MaxGroupSize,
        r \in SeqsUpTo(RestrictionPairs, MaxRestrictions)}

\* bot.js 284-294: a group of fewer than 2 returns [] at once.
SaEnter ==
    /\ sa.pc = "called"
    /\ sa' = IF Len(sa.group) < 2
             THEN [sa EXCEPT !.pc = "returned", !.result = <<>>]
             ELSE [sa EXCEPT !.pc = "loop", !.attempts = 0]
    /\ UNCHANGED <<gp, vr, rl, botVars>>

\* bot.js 296-329: one iteration of the while loop.
SaAttempt ==
    /\ sa.pc = "loop"
    /\ sa.attempts < maxRetries
    /\ \E rnd \in RandomInts(Len(sa.group)) :
          LET a == attempt(sa.group, sa.restrictions, rnd)
          IN  sa' = IF a.isValid
                    THEN [sa EXCEPT !.pc = "returned", !.attempts = @ + 1,
                                    !.isValid = TRUE,
                                    !.result = a.potentialMatches]
                    ELSE [sa EXCEPT !.attempts = @ + 1, !.isValid = FALSE]
    /\ UNCHANGED <<gp, vr, rl, botVars>>

\* bot.js 331-332: the loop ended without a return.
SaThrow ==
    /\ sa.pc = "loop"
    /\ ~(sa.attempts < maxRetries)
    /\ sa' = [sa EXCEPT !.pc = "threw", !.error = matchError(sa.group)]
    /\ UNCHANGED <<gp, vr, rl, botVars>>

NextMatching == SaEnter \/ SaAttempt \/ SaThrow

(***************************************************************************)
(* Properties of assignParticipantsToGroups, under SpecGrouping.           *)
(***************************************************************************)
Concat(groups) ==
    LET RECURSIVE cat(_)
        cat(k) == IF k = 0 THEN <<>> ELSE cat(k - 1) \o groups[k]
    IN  cat(Len(groups))

GpP == Len(gp.args)

GpValidCount == GpP >= 1 /\ 1 <= gp.numGroups /\ gp.numGroups <= GpP

\* C9: for a list of P >= 1 distinct participants and 1 <= N <= P the call
\* returns exactly N non-empty groups that partition the list, group i having
\* floor(P/N) members plus one for the first P mod N groups, and the caller's
\* list is left as it was.
C9_GroupingPartitions ==
    (gp.pc # "called" /\ GpValidCount) =>
        /\ gp.pc = "returned"
        /\ Len(gp.groups) = gp.numGroups
        /\ \A i \in 1..Len(gp.groups) :
              /\ Len(gp.groups[i]) > 0
              /\ Len(gp.groups[i]) =
                    (GpP \div gp.numGroups)
                    + (IF i <= GpP % gp.numGroups THEN 1 ELSE 0)
        /\ Len(Concat(gp.groups)) = GpP
        /\ \A x \in Range(gp.args) :
              Cardinality({k \in 1..GpP : Concat(gp.groups)[k] = x}) = 1
        /\ gp.participants = gp.args

\* A call with uneven groups whose order differs from the list's has returned.
C9_Witness ==
    /\ gp.pc = "returned"
    /\ GpP = 4
    /\ gp.numGroups = 3
    /\ Len(gp.groups) = 3
    /\ Len(gp.groups[1]) = 2
    /\ Concat(gp.groups) # gp.args

\* C10: with P > 0 and N < 1 or N > P the call throws and returns no groups;
\* with P = 0 it returns the empty collection without error for every N.
C10_GroupingRejects ==
    (gp.pc # "called") =>
        /\ (GpP > 0 /\ (gp.numGroups < 1 \/ gp.numGroups > GpP)) =>
              (gp.pc = "threw" /\ gp.threw /\ gp.error # "" /\ gp.groups = <<>>)
        /\ (GpP = 0) =>
              (gp.pc = "returned" /\ ~gp.threw /\ gp.error = "" /\ gp.groups = <<>>)

\* An empty list with a group count below 1 has returned the empty collection.
C10_Witness ==
    /\ gp.pc = "returned"
    /\ GpP = 0
    /\ gp.numGroups < 1
    /\ gp.groups = <<>>

(***************************************************************************)
(* Properties of assignSecretAngels, under SpecMatching.                   *)
(***************************************************************************)
Arrangements(group) ==
    {s \in [1..Len(group) -> Range(group)] :
        \A i, j \in 1..Len(group) : s[i] = s[j] => i = j}

\* No two cyclic neighbours of the arrangement are a restricted pair.
FreeArrangement(s, restrictions) ==
    \A i \in 1..Len(s) :
        \A k \in 1..Len(restrictions) :
            LET a == s[i]
                b == s[(i % Len(s)) + 1]
            IN  /\ restrictions[k] # <<a, b>>
                /\ restrictions[k] # <<b, a>>

Feasible(group, restrictions) ==
    \E s \in Arrangements(group) : FreeArrangement(s, restrictions)

ValidAssignment(group, restrictions, result) ==
    /\ Len(result) = Len(group)
    /\ \A m \in Range(group) :
          /\ Cardinality({k \in 1..Len(result) : result[k].giver = m}) = 1
          /\ Cardinality({k \in 1..Len(result) : result[k].receiver = m}) = 1
    /\ \A k \in 1..Len(result) :
          /\ result[k].giver # result[k].receiver
          /\ \A j \in 1..Len(restrictions) :
                /\ restrictions[j] # <<result[k].giver, result[k].receiver>>
                /\ restrictions[j] # <<result[k].receiver, result[k].giver>>

\* C6: whenever assignSecretAngels returns for a group of n >= 2 names, the
\* result has n pairs, every member gives once and receives once, nobody
\* gives to themself and no pair is restricted in either orientation.
C6_ReturnedAssignmentValid ==
    (sa.pc = "returned" /\ Len(sa.group) >= 2) =>
        ValidAssignment(sa.group, sa.restrictions, sa.result)

\* A group of 4 with a restriction inside it was matched after a failed attempt.
C6_Witness ==
    /\ sa.pc = "returned"
    /\ Len(sa.group) = 4
    /\ sa.attempts > 1
    /\ sa.restrictions = << <<"Bob", "Alice">> >>
    /\ Len(sa.result) = 4

SaInvariant7 ==
    /\ sa.attempts <= maxRetries
    /\ (sa.pc = "loop" /\ sa.attempts > 0) => ~sa.isValid
    /\ (sa.pc = "returned" /\ Len(sa.group) >= 2) =>
          /\ sa.isValid
          /\ sa.attempts >= 1
          /\ Len(sa.result) = Len(sa.group)
          /\ sa.error = NoError
    /\ (sa.pc = "threw") =>
          /\ sa.attempts = maxRetries
          /\ ~sa.isValid
          /\ sa.result = <<>>
          /\ sa.error.group = sa.group
          /\ sa.error.attempts = maxRetries

\* The number of steps the call can still take.
SaMeasure ==
    CASE sa.pc = "called" -> maxRetries + 2
      [] sa.pc = "loop" -> maxRetries + 1 - sa.attempts
      [] OTHER -> 0

SaDone == sa.pc \in {"returned", "threw"}

\* C7: matching always terminates: it makes at most 100 attempts, goes on
\* only after an attempt that failed, returns the complete result of the
\* first attempt that passes, and after 100 failed attempts throws an error
\* naming the group, with no result.  Termination: every step lowers the
\* number of steps left, which is never negative, and the call is never
\* stuck before it has returned or thrown.
C7_MatchingTerminates ==
    /\ [](SaInvariant7 /\ SaMeasure >= 0 /\ (SaDone \/ ENABLED NextMatching))
    /\ [][SaMeasure' < SaMeasure]_vars

\* All 100 attempts failed and the error was thrown.
C7_Witness ==
    /\ sa.pc = "threw"
    /\ sa.attempts = maxRetries
    /\ Len(sa.group) = 4

\* C8 as stated: with at least one cyclic arrangement free of restricted
\* pairs, matching never fails, whatever the shuffles produce.
C8_FeasibleNeverFails ==
    (Len(sa.group) >= 2 /\ Feasible(sa.group, sa.restrictions)) => sa.pc # "threw"

\* C8 as amended: matching fails only after 100 attempts whose shuffles all
\* held a restricted pair, hence never when every cyclic arrangement is free;
\* and whenever one of its shuffles is free of restricted pairs it returns
\* that arrangement's assignment at once.
C8_FailsOnlyAfterHundredBadShuffles ==
    /\ (sa.pc = "threw") =>
          /\ sa.attempts = maxRetries
          /\ ~sa.isValid
          /\ \E s \in Arrangements(sa.group) : ~FreeArrangement(s, sa.restrictions)
    /\ (sa.pc = "returned" /\ Len(sa.group) >= 2) =>
          /\ sa.attempts <= maxRetries
          /\ LET s == [i \in 1..Len(sa.result) |-> sa.result[i].giver]
             IN  /\ s \in Arrangements(sa.group)
                 /\ FreeArrangement(s, sa.restrictions)
                 /\ sa.result =
                       [i \in 1..Len(s) |->
                           [giver |-> s[i], receiver |-> s[(i % Len(s)) + 1]]]

\* A feasible group of 4 was matched at the last permitted attempt.
C8_Witness ==
    /\ sa.pc = "returned"
    /\ Len(sa.group) = 4
    /\ sa.attempts = maxRetries
    /\ Len(sa.restrictions) = 1
    /\ ~FreeArrangement(sa.group, sa.restrictions)

(***************************************************************************)
(* Message texts.  A text is the sequence of its characters, so that the   *)
(* string operations of the handlers (startsWith, the command patterns,    *)
(* trim, split, parseInt, toLowerCase, the escaping of sanitizeInput) are  *)
(* computed on the characters as the code computes them.                   *)
(***************************************************************************)
UpperCase == <<"A", "B", "C", "D", "E", "F", "G", "H", "I", "J", "K", "L", "M",
               "N", "O", "P", "Q", "R", "S", "T", "U", "V", "W", "X", "Y", "Z">>

LowerCase == <<"a", "b", "c", "d", "e", "f", "g", "h", "i", "j", "k", "l", "m",
               "n", "o", "p", "q", "r", "s", "t", "u", "v", "w", "x", "y", "z">>

Digits == <<"0", "1", "2", "3", "4", "5", "6", "7", "8", "9">>

WhiteSpace == {" ", "\n", "\t"}

\* \w of the pattern at security.js 47.
WordChars == Range(UpperCase) \cup Range(LowerCase) \cup Range(Digits) \cup {"_"}

toLowerCaseChar(c) ==
    IF c \in Range(UpperCase)
    THEN LowerCase[CHOOSE i \in 1..Len(UpperCase) : UpperCase[i] = c]
    ELSE c

toLowerCase(text) == [i \in 1..Len(text) |-> toLowerCaseChar(text[i])]

RECURSIVE trimStart(_)
trimStart(text) ==
    IF Len(text) > 0 /\ text[1] \in WhiteSpace THEN trimStart(Tail(text)) ELSE text

RECURSIVE trimEnd(_)
trimEnd(text) ==
    IF Len(text) > 0 /\ text[Len(text)] \in WhiteSpace
    THEN trimEnd(SubSeq(text, 1, Len(text) - 1))
    ELSE text

trim(text) == trimEnd(trimStart(text))

startsWith(text, prefix) ==
    Len(text) >= Len(prefix) /\ SubSeq(text, 1, Len(prefix)) = prefix

\* RegExp.exec of an unanchored literal pattern: the pattern occurs somewhere.
matches(text, pattern) ==
    \E i \in 1..(Len(text) - Len(pattern) + 1) :
        SubSeq(text, i, i + Len(pattern) - 1) = pattern

\* String.prototype.split on a one-character separator.
RECURSIVE splitFrom(_, _, _, _)
splitFrom(text, sep, i, current) ==
    IF i > Len(text) THEN <<current>>
    ELSE IF text[i] = sep
         THEN <<current>> \o splitFrom(text, sep, i + 1, <<>>)
         ELSE splitFrom(text, sep, i + 1, Append(current, text[i]))

split(text, sep) == splitFrom(text, sep, 1, <<>>)

DigitValue(c) == (CHOOSE i \in 1..Len(Digits) : Digits[i] = c) - 1

RECURSIVE digitsPrefix(_, _, _)
digitsPrefix(text, i, acc) ==
    IF i <= Len(text) /\ text[i] \in Range(Digits)
    THEN digitsPrefix(text, i + 1, acc * 10 + DigitValue(text[i]))
    ELSE [value |-> acc, next |-> i]

\* parseInt(input, 10): leading white space, an optional sign, then the
\* longest run of digits; NaN without a digit there.
parseInt(text) ==
    LET t == trimStart(text)
        signed == Len(t) > 0 /\ t[1] \in {"-", "+"}
        first == IF signed THEN 2 ELSE 1
        d == digitsPrefix(t, first, 0)
    IN  IF d.next = first THEN [isNaN |-> TRUE, value |-> 0]
        ELSE [isNaN |-> FALSE,
              value |-> IF signed /\ t[1] = "-" THEN 0 - d.value ELSE d.value]

(***************************************************************************)
(* security.js.                                                            *)
(***************************************************************************)
MAX_NAME_LENGTH == 100
MAX_WISHLIST_LENGTH == 1000
MAX_RESTRICTIONS_INPUT_LENGTH == 5000

escapeChar(c) ==
    CASE c = "<" -> <<"&", "l", "t", ";">>
      [] c = ">" -> <<"&", "g", "t", ";">>
      [] c = "\"" -> <<"&", "q", "u", "o", "t", ";">>
      [] c = "'" -> <<"&", "#", "x", "2", "7", ";">>
      [] c = "/" -> <<"&", "#", "x", "2", "F", ";">>
      [] OTHER -> <<c>>

RECURSIVE escapeFrom(_, _)
escapeFrom(input, i) ==
    IF i > Len(input) THEN <<>> ELSE escapeChar(input[i]) \o escapeFrom(input, i + 1)

sanitizeInput(input) == trim(escapeFrom(input, 1))

Null == [null |-> TRUE]

Value(v) == [null |-> FALSE, value |-> v]

\* validateName (security.js 34-52): the sanitized name, or Null.
validateName(name) ==
    IF Len(name) = 0 THEN Null
    ELSE
        LET sanitizedName == sanitizeInput(trim(name))
        IN  IF Len(sanitizedName) = 0 \/ Len(sanitizedName) > MAX_NAME_LENGTH
            THEN Null
            ELSE IF ~(\A i \in 1..Len(sanitizedName) :
                        sanitizedName[i] \in WordChars \cup WhiteSpace \cup {"-", "'"})
            THEN Null
            ELSE Value(sanitizedName)

\* validateWishlist (security.js 59-71).
validateWishlist(wishlist) ==
    IF Len(wishlist) = 0 THEN <<>>
    ELSE
        LET sanitizedWishlist == sanitizeInput(trim(wishlist))
        IN  IF Len(sanitizedWishlist) > MAX_WISHLIST_LENGTH
            THEN SubSeq(sanitizedWishlist, 1, MAX_WISHLIST_LENGTH)
            ELSE sanitizedWishlist

\* validateNumber (security.js 80-88): the number, or Null.
\* validateNumber without the comparison with max.
validateNumberAtLeast(input, min, max) ==
    LET num == parseInt(input)
    IN  IF num.isNaN \/ num.value < min THEN Null ELSE Value(num.value)

validateNumber(input, min, max) ==
    LET num == parseInt(input)
    IN  IF num.isNaN \/ num.value < min \/ num.value > max THEN Null
        ELSE Value(num.value)

\* The for loop that leaves out the lines that are not a pair of the roster
\* instead of rejecting the input.
RECURSIVE restrictionLinesSkipping(_, _, _, _)
restrictionLinesSkipping(lines, validParticipants, i, restrictions) ==
    IF i > Len(lines) THEN Value(restrictions)
    ELSE
        LET trimmedLine == trim(lines[i])
            parts == split(trimmedLine, ",")
            pair == [k \in 1..Len(parts) |-> trim(parts[k])]
        IN  IF \/ trimmedLine = <<>>
               \/ Len(pair) # 2 \/ (\E k \in 1..Len(pair) : pair[k] = <<>>)
               \/ pair[1] \notin validParticipants \/ pair[2] \notin validParticipants
               \/ pair[1] = pair[2]
            THEN restrictionLinesSkipping(lines, validParticipants, i + 1,
                                          restrictions)
            ELSE restrictionLinesSkipping(lines, validParticipants, i + 1,
                                          Append(restrictions, pair))

\* The for loop of validateRestrictionsInput (security.js 114-136).
RECURSIVE restrictionLines(_, _, _, _)
restrictionLines(lines, validParticipants, i, restrictions) ==
    IF i > Len(lines) THEN Value(restrictions)
    ELSE
        LET trimmedLine == trim(lines[i])
            parts == split(trimmedLine, ",")
            pair == [k \in 1..Len(parts) |-> trim(parts[k])]
        IN  IF trimmedLine = <<>>
            THEN restrictionLines(lines, validParticipants, i + 1, restrictions)
            ELSE IF Len(pair) # 2 \/ (\E k \in 1..Len(pair) : pair[k] = <<>>)
            THEN Null
            ELSE IF pair[1] \notin validParticipants \/ pair[2] \notin validParticipants
            THEN Null
            ELSE IF pair[1] = pair[2]
            THEN Null
            ELSE restrictionLines(lines, validParticipants, i + 1,
                                  Append(restrictions, pair))

\* validateRestrictionsInput (security.js 96-142): the list of pairs, or Null.
validateRestrictionsInput(input, validParticipants) ==
    IF Len(input) = 0 THEN Value(<<>>)
    ELSE IF Len(input) > MAX_RESTRICTIONS_INPUT_LENGTH THEN Null
    ELSE
        LET trimmedInput == trim(input)
        IN  IF toLowerCase(trimmedInput) = <<"n", "o", "n", "e">> \/ trimmedInput = <<>>
            THEN Value(<<>>)
            ELSE restrictionLines(split(trimmedInput, "\n"), validParticipants,
                                  1, <<>>)

(***************************************************************************)
(* The store: the four tables of bot.js 75-107 behind the single client    *)
(* of bot.js 65.  One client is one connection and so one session: there   *)
(* is at most one open transaction, and every query of every handler runs  *)
(* in it.  Rows of the three group tables carry a history field "run",     *)
(* the run whose handler inserted them; no query reads it.                 *)
(***************************************************************************)
EmptyGroupTables ==
    [tg_groups |-> {}, tg_group_members |-> {}, tg_assignments |-> {}]

Tables(d) ==
    [tg_participants |-> d.tg_participants,
     tg_groups |-> d.tg_groups,
     tg_group_members |-> d.tg_group_members,
     tg_assignments |-> d.tg_assignments]

GroupTables(t) ==
    [tg_groups |-> t.tg_groups,
     tg_group_members |-> t.tg_group_members,
     tg_assignments |-> t.tg_assignments]

\* The session outside a transaction.
NoTransaction ==
    [active |-> FALSE, aborted |-> FALSE, saved |-> <<>>,
     participants_id_seq |-> {}, groups_id_seq |-> {}]

Ok(st, rows) == [db |-> st.db, txn |-> st.txn, err |-> FALSE, rows |-> rows]

\* A failed statement changes nothing, and aborts the open transaction.
Failed(st) ==
    [db |-> st.db,
     txn |-> IF st.txn.active THEN [st.txn EXCEPT !.aborted = TRUE] ELSE st.txn,
     err |-> TRUE, rows |-> {}]

\* ROLLBACK, and COMMIT of an aborted transaction: the tables as they were
\* at BEGIN.  A sequence keeps the values it handed out, except that a
\* RESTART IDENTITY inside the transaction is undone with it.
rolledBack(st) ==
    [db |-> [tg_participants |-> st.txn.saved.tg_participants,
             tg_groups |-> st.txn.saved.tg_groups,
             tg_group_members |-> st.txn.saved.tg_group_members,
             tg_assignments |-> st.txn.saved.tg_assignments,
             participants_id_seq |->
                 IF st.txn.participants_id_seq # {}
                 THEN CHOOSE v \in st.txn.participants_id_seq : TRUE
                 ELSE st.db.participants_id_seq,
             groups_id_seq |->
                 IF st.txn.groups_id_seq # {}
                 THEN CHOOSE v \in st.txn.groups_id_seq : TRUE
                 ELSE st.db.groups_id_seq],
     txn |-> NoTransaction]

\* The value a sequence goes back to if the open transaction is rolled back:
\* none (the empty set) as long as the transaction has not restarted it.
restartSaved(st, seq) ==
    IF st.txn.active /\ st.txn[seq] = {} THEN {st.db[seq]} ELSE st.txn[seq]

\* name = $1 instead of lower(name) = lower($1).
sameNameExactly(a, b) == a = b

sameName(a, b) == toLowerCase(a) = toLowerCase(b)

\* An upsert that deletes the row of the name and inserts a new one: the
\* memberships and the assignments of the old row go with it (ON DELETE
\* CASCADE, bot.js 91, 105, 106).
upsertParticipantCascading(st, q) ==
    LET id == st.db.participants_id_seq + 1
        old == {p.id : p \in {x \in st.db.tg_participants : x.name = q.name}}
    IN  Ok([st EXCEPT
              !.db.participants_id_seq = id,
              !.db.tg_participants =
                  {p \in @ : p.id \notin old}
                      \cup {[id |-> id, name |-> q.name, wishlist |-> q.wishlist]},
              !.db.tg_group_members = {m \in @ : m.participant_id \notin old},
              !.db.tg_assignments =
                  {x \in @ : /\ x.giver_participant_id \notin old
                             /\ x.receiver_participant_id \notin old}], {})

\* An upsert that replaces the row of the name by a new row, with the id taken
\* from the sequence.
upsertParticipantReplacing(st, q) ==
    LET id == st.db.participants_id_seq + 1
        old == {p \in st.db.tg_participants : p.name = q.name}
        new == {[id |-> id, name |-> q.name, wishlist |-> q.wishlist]}
    IN  IF \E p \in st.db.tg_participants \ old : p.id = id
        THEN Failed([st EXCEPT !.db.participants_id_seq = id])
        ELSE Ok([st EXCEPT
                   !.db.participants_id_seq = id,
                   !.db.tg_participants = (@ \ old) \cup new], {})

\* INSERT INTO tg_participants (name, wishlist) ... ON CONFLICT (name) DO
\* UPDATE SET wishlist = EXCLUDED.wishlist (bot.js 543), on the table of
\* bot.js 75: id SERIAL PRIMARY KEY, name TEXT UNIQUE.  The default id is
\* taken from the sequence before the conflict on the name is found.
upsertParticipant(st, q) ==
    LET id == st.db.participants_id_seq + 1
        old == {p \in st.db.tg_participants : p.name = q.name}
        new == IF old = {}
               THEN {[id |-> id, name |-> q.name, wishlist |-> q.wishlist]}
               ELSE {[p EXCEPT !.wishlist = q.wishlist] : p \in old}
    IN  IF old = {} /\ \E p \in st.db.tg_participants : p.id = id
        THEN Failed([st EXCEPT !.db.participants_id_seq = id])
        ELSE Ok([st EXCEPT
                   !.db.participants_id_seq = id,
                   !.db.tg_participants = (@ \ old) \cup new], {})

\* One statement on the session st = [db, txn].
execute(st, q) ==
    CASE q.sql = "BEGIN" ->
            IF st.txn.active
            THEN IF st.txn.aborted THEN Failed(st) ELSE Ok(st, {})
            ELSE Ok([db |-> st.db,
                     txn |-> [active |-> TRUE, aborted |-> FALSE,
                              saved |-> Tables(st.db),
                              participants_id_seq |-> {},
                              groups_id_seq |-> {}]], {})
      [] q.sql = "COMMIT" ->
            IF st.txn.active /\ st.txn.aborted THEN Ok(rolledBack(st), {})
            ELSE Ok([db |-> st.db, txn |-> NoTransaction], {})
      [] q.sql = "ROLLBACK" ->
            IF st.txn.active THEN Ok(rolledBack(st), {}) ELSE Ok(st, {})
      [] OTHER ->
        IF st.txn.active /\ st.txn.aborted THEN Failed(st)
        ELSE
        CASE q.sql = "TRUNCATE_GROUPS" ->
                Ok([db |-> [st.db EXCEPT !.tg_groups = {},
                                         !.tg_group_members = {},
                                         !.tg_assignments = {},
                                         !.groups_id_seq = 0],
                    txn |-> IF st.txn.active
                            THEN [st.txn EXCEPT !.groups_id_seq =
                                      restartSaved(st, "groups_id_seq")]
                            ELSE st.txn], {})
          [] q.sql = "TRUNCATE_ALL" ->
                Ok([db |-> [tg_participants |-> {}, tg_groups |-> {},
                            tg_group_members |-> {}, tg_assignments |-> {},
                            participants_id_seq |-> 0, groups_id_seq |-> 0],
                    txn |-> IF st.txn.active
                            THEN [st.txn EXCEPT
                                    !.groups_id_seq =
                                        restartSaved(st, "groups_id_seq"),
                                    !.participants_id_seq =
                                        restartSaved(st, "participants_id_seq")]
                            ELSE st.txn], {})
          [] q.sql = "UPSERT_PARTICIPANT" -> upsertParticipant(st, q)
          [] q.sql = "INSERT_GROUP" ->
                LET id == st.db.groups_id_seq + 1
                IN  IF \E g \in st.db.tg_groups : g.group_id = id
                    THEN Failed([st EXCEPT !.db.groups_id_seq = id])
                    ELSE Ok([st EXCEPT
                               !.db.groups_id_seq = id,
                               !.db.tg_groups = @ \cup
                                   {[group_id |-> id, group_name |-> q.group_name,
                                     run |-> q.run]}],
                            {[group_id |-> id]})
          [] q.sql = "INSERT_MEMBER" ->
                IF \/ ~(\E g \in st.db.tg_groups : g.group_id = q.group_id)
                   \/ ~(\E p \in st.db.tg_participants : p.id = q.participant_id)
                   \/ \E m \in st.db.tg_group_members :
                          /\ m.group_id = q.group_id
                          /\ m.participant_id = q.participant_id
                THEN Failed(st)
                ELSE Ok([st EXCEPT !.db.tg_group_members = @ \cup
                            {[group_id |-> q.group_id,
                              participant_id |-> q.participant_id,
                              run |-> q.run]}], {})
          [] q.sql = "INSERT_ASSIGNMENT" ->
                IF \/ ~(\E g \in st.db.tg_groups : g.group_id = q.group_id)
                   \/ ~(\E p \in st.db.tg_participants : p.id = q.giver_participant_id)
                   \/ ~(\E p \in st.db.tg_participants : p.id = q.receiver_participant_id)
                   \/ \E a \in st.db.tg_assignments :
                          /\ a.group_id = q.group_id
                          /\ a.giver_participant_id = q.giver_participant_id
                THEN Failed(st)
                ELSE Ok([st EXCEPT !.db.tg_assignments = @ \cup
                            {[group_id |-> q.group_id,
                              giver_participant_id |-> q.giver_participant_id,
                              receiver_participant_id |-> q.receiver_participant_id,
                              run |-> q.run]}], {})
          [] q.sql = "SELECT_ID_NAME" ->
                Ok(st, {[id |-> p.id, name |-> p.name] : p \in st.db.tg_participants})
          [] q.sql = "SELECT_NAME_WISHLIST" ->
                Ok(st, {[name |-> p.name, wishlist |-> p.wishlist] :
                            p \in st.db.tg_participants})
          [] q.sql = "SELECT_ASSIGNMENT" ->
                Ok(st, {[receiver_name |-> r.name, receiver_wishlist |-> r.wishlist,
                         giver_participant_id |-> a.giver_participant_id] :
                        <<a, r>> \in
                            {x \in st.db.tg_assignments \X st.db.tg_participants :
                                /\ x[1].receiver_participant_id = x[2].id
                                /\ \E g \in st.db.tg_participants :
                                      /\ g.id = x[1].giver_participant_id
                                      /\ sameName(g.name, q.name)}})
          [] q.sql = "SELECT_PARTICIPANT" ->
                Ok(st, {p.id : p \in {x \in st.db.tg_participants :
                                          sameName(x.name, q.name)}})

\* What another session would read: the tables without the effects of the
\* open transaction.
Committed(st) == IF st.txn.active THEN st.txn.saved ELSE Tables(st.db)

(***************************************************************************)
(* The bot.  A handler is an operator from the state of the bot, a record  *)
(* w with one field per variable, to the state it leaves; it runs from the *)
(* arrival of a message, or from the result of the query it awaited, to    *)
(* its next query or its end.                                              *)
(***************************************************************************)
NoState == [state |-> "none"]

NoRun == [outcome |-> "none"]

NoEvent == [type |-> "none"]

World ==
    [ADMIN_USER_ID |-> ADMIN_USER_ID, userState |-> userState,
     queryQueue |-> queryQueue, db |-> db, txn |-> txn, runs |-> runs,
     sent |-> <<>>, finished |-> NoRun, event |-> NoEvent]

sendMessage(w, chatId, message) ==
    [w EXCEPT !.sent = Append(@, [chatId |-> chatId, message |-> message])]

\* userState = {} instead of delete userState[chatId].
deleteEveryUserState(w, chatId) ==
    [w EXCEPT !.userState = [c \in DOMAIN @ |-> NoState]]

deleteUserState(w, chatId) == [w EXCEPT !.userState[chatId] = NoState]

\* client.query: the query waits in the client's queue for its turn.
clientQuery(w, job) == [w EXCEPT !.queryQueue = Append(@, job)]

\* isAdmin without the comparison of the ids.
isAdminOnceConfigured(w, userId) == w.ADMIN_USER_ID # 0

isAdmin(w, userId) ==
    IF w.ADMIN_USER_ID = 0 THEN FALSE ELSE userId = w.ADMIN_USER_ID

RateLimitMessage == <<"sending requests too quickly">>

AdminsOnlyMessage == <<"admins only">>

InvalidNameMessage == <<"provide a valid name">>

onStart(w, msg) ==
    deleteUserState(sendMessage(w, msg.chatId, <<"Welcome">>), msg.chatId)

onRegister(w, msg, limited) ==
    IF limited THEN sendMessage(w, msg.chatId, RateLimitMessage)
    ELSE [sendMessage(w, msg.chatId, <<"What's your name?">>)
            EXCEPT !.userState[msg.chatId] = [state |-> "awaiting_name"]]

onMyAssignment(w, msg, limited) ==
    IF limited THEN sendMessage(w, msg.chatId, RateLimitMessage)
    ELSE [sendMessage(w, msg.chatId, <<"What name did you register with?">>)
            EXCEPT !.userState[msg.chatId] =
                       [state |-> "awaiting_name_for_assignment"]]

onParticipants(w, msg, limited) ==
    IF limited THEN sendMessage(w, msg.chatId, RateLimitMessage)
    ELSE IF ~isAdmin(w, msg.userId)
    THEN sendMessage(w, msg.chatId, AdminsOnlyMessage)
    ELSE clientQuery(w, [handler |-> "participants", chatId |-> msg.chatId,
                         query |-> [sql |-> "SELECT_NAME_WISHLIST"]])

onClearData(w, msg, limited) ==
    IF limited THEN sendMessage(w, msg.chatId, RateLimitMessage)
    ELSE IF ~isAdmin(w, msg.userId)
    THEN sendMessage(w, msg.chatId, AdminsOnlyMessage)
    ELSE [sendMessage(w, msg.chatId, <<"Reply with 'yes' to confirm">>)
            EXCEPT !.userState[msg.chatId] =
                       [state |-> "awaiting_clear_confirmation"]]

onCreateGroups(w, msg, limited) ==
    IF limited THEN sendMessage(w, msg.chatId, RateLimitMessage)
    ELSE IF ~isAdmin(w, msg.userId)
    THEN sendMessage(w, msg.chatId, AdminsOnlyMessage)
    ELSE clientQuery(w, [handler |-> "creategroups", chatId |-> msg.chatId,
                         query |-> [sql |-> "SELECT_ID_NAME"]])

\* participants.map(p => p.name)
participantNames(participants) ==
    [k \in 1..Len(participants) |-> participants[k].name]

\* The run of bot.js 666-776 up to its first query.
startRun(w, msg, stateData, restrictions) ==
    LET w1 == sendMessage(w, msg.chatId,
                  <<"Processing", stateData.numGroups, Len(restrictions)>>)
        w2 == deleteUserState(w1, msg.chatId)
    IN  clientQuery([w2 EXCEPT !.runs = @ + 1],
            [handler |-> "run", at |-> "BEGIN", chatId |-> msg.chatId,
             query |-> [sql |-> "BEGIN"],
             run |-> w.runs + 1,
             participants |-> stateData.participants,
             numGroups |-> stateData.numGroups,
             restrictions |-> restrictions,
             createdGroupsByName |-> <<>>, i |-> 0, matches |-> <<>>,
             groupId |-> 0, k |-> 0, totalAssignments |-> 0,
             assignmentsSummary |-> <<>>, error |-> NoError,
             before |-> EmptyGroupTables, inserted |-> EmptyGroupTables])

\* The listener of bot.js 493-876, up to its first query or its return.
onMessage(w, msg, limited) ==
    LET chatId == msg.chatId
        text == msg.text
        stateData == w.userState[chatId]
        state == stateData.state
    IN
    IF limited THEN sendMessage(w, chatId, RateLimitMessage)
    ELSE IF startsWith(text, <<"/">>)
    THEN IF stateData # NoState THEN deleteUserState(w, chatId) ELSE w
    ELSE IF stateData = NoState THEN w
    ELSE
    CASE state = "awaiting_name" ->
            LET sanitizedName == validateName(text)
            IN  IF sanitizedName.null
                THEN sendMessage(w, chatId, InvalidNameMessage)
                ELSE [sendMessage(w, chatId, <<"Got it", sanitizedName.value>>)
                        EXCEPT !.userState[chatId] =
                                   [state |-> "awaiting_wishlist",
                                    name |-> sanitizedName.value]]
      [] state = "awaiting_wishlist" ->
            LET sanitizedWishlist ==
                    IF toLowerCase(text) # <<"s", "k", "i", "p">>
                    THEN validateWishlist(text) ELSE <<>>
            IN  clientQuery(w, [handler |-> "register", chatId |-> chatId,
                                name |-> stateData.name,
                                sanitizedWishlist |-> sanitizedWishlist,
                                query |-> [sql |-> "UPSERT_PARTICIPANT",
                                           name |-> stateData.name,
                                           wishlist |-> sanitizedWishlist]])
      [] state = "awaiting_name_for_assignment" ->
            LET sanitizedName == validateName(text)
            IN  IF sanitizedName.null
                THEN sendMessage(w, chatId, InvalidNameMessage)
                ELSE clientQuery(w, [handler |-> "myassignment",
                                     at |-> "assignment", chatId |-> chatId,
                                     sanitizedName |-> sanitizedName.value,
                                     query |-> [sql |-> "SELECT_ASSIGNMENT",
                                                name |-> sanitizedName.value]])
      [] state = "awaiting_clear_confirmation" ->
            IF ~isAdmin(w, msg.userId)
            THEN deleteUserState(
                     sendMessage(w, chatId, <<"Confirmation error">>), chatId)
            ELSE IF toLowerCase(text) = <<"y", "e", "s">>
            THEN clientQuery(w, [handler |-> "cleardata", chatId |-> chatId,
                                 query |-> [sql |-> "TRUNCATE_ALL"]])
            ELSE deleteUserState(
                     sendMessage(w, chatId, <<"Data clearing cancelled">>), chatId)
      [] state = "awaiting_num_groups" ->
            IF ~isAdmin(w, msg.userId)
            THEN deleteUserState(
                     sendMessage(w, chatId, <<"State error: number of groups">>),
                     chatId)
            ELSE
                LET numGroups == validateNumber(text, 1, stateData.participantCount)
                IN  IF numGroups.null
                    THEN sendMessage(w, chatId,
                             <<"Please enter a valid number", stateData.participantCount>>)
                    ELSE [sendMessage(w, chatId, <<"Okay, groups", numGroups.value>>)
                            EXCEPT !.userState[chatId] =
                                [state |-> "awaiting_restrictions",
                                 participantCount |-> stateData.participantCount,
                                 participants |-> stateData.participants,
                                 numGroups |-> numGroups.value]]
      [] state = "awaiting_restrictions" ->
            IF ~isAdmin(w, msg.userId)
            THEN deleteUserState(
                     sendMessage(w, chatId, <<"State error: restrictions">>), chatId)
            ELSE
                LET restrictions ==
                        validateRestrictionsInput(text,
                            Range(participantNames(stateData.participants)))
                IN  IF restrictions.null
                    THEN sendMessage(w, chatId, <<"Invalid restrictions format">>)
                    ELSE startRun(w, msg, stateData, restrictions.value)
      [] OTHER -> w

(***************************************************************************)
(* The rest of each handler: from the result of the query it awaited to    *)
(* its next query or its end.  Where the code draws random numbers the     *)
(* operator gives the set of the states it can leave.                      *)
(***************************************************************************)
session(w) == [db |-> w.db, txn |-> w.txn]

\* rows[0] alone instead of rows.
rowsArrayOfFirst(rows) ==
    IF rows = {} THEN <<>>
    ELSE <<CHOOSE r \in rows : \A o \in rows : r.id <= o.id>>

\* The rows of a result as the array the handler iterates over.
RECURSIVE rowsArray(_)
rowsArray(rows) ==
    IF rows = {} THEN <<>>
    ELSE LET first == CHOOSE r \in rows : \A o \in rows : r.id <= o.id
         IN  <<first>> \o rowsArray(rows \ {first})

\* new Map(participants.map(p => [p.name, p.id])).get(name)
participantMap(participants, name) ==
    LET ks == {k \in 1..Len(participants) : participants[k].name = name}
    IN  IF ks = {} THEN Null
        ELSE Value(participants[CHOOSE k \in ks : \A o \in ks : o <= k].id)

\* What a call of assignSecretAngels (bot.js 283-333) can do: return the
\* matches of a valid attempt, or throw after maxRetries invalid attempts.
assignSecretAngels(group, restrictions) ==
    IF Len(group) < 2
    THEN {[threw |-> FALSE, matches |-> <<>>, error |-> NoError]}
    ELSE
        LET attempts == {attempt(group, restrictions, rnd) :
                            rnd \in RandomInts(Len(group))}
        IN  {[threw |-> FALSE, matches |-> a.potentialMatches, error |-> NoError] :
                 a \in {x \in attempts : x.isValid}}
            \cup
            {[threw |-> TRUE, matches |-> <<>>, error |-> matchError(group)] :
                 a \in {x \in attempts : ~x.isValid}}

\* The end of the handler of a run (bot.js 776), with the record of the run:
\* its outcome, its restrictions, the 'giver -> receiver' lines of its summary
\* (bot.js 750, 759), the rows it has inserted and the tables before and after.
\* The end of the run without the delete of bot.js 776.
endRunKeepingState(w, job, outcome) ==
    [w EXCEPT
        !.finished =
            [outcome |-> outcome, run |-> job.run, chatId |-> job.chatId,
             restrictions |-> job.restrictions,
             assignmentsSummary |-> job.assignmentsSummary,
             before |-> job.before,
             inserted |-> job.inserted,
             after |-> GroupTables(Committed(session(w))),
             tg_participants |-> Committed(session(w)).tg_participants]]

endRun(w, job, outcome) ==
    [deleteUserState(w, job.chatId) EXCEPT
        !.finished =
            [outcome |-> outcome, run |-> job.run, chatId |-> job.chatId,
             restrictions |-> job.restrictions,
             assignmentsSummary |-> job.assignmentsSummary,
             before |-> job.before,
             inserted |-> job.inserted,
             after |-> GroupTables(Committed(session(w))),
             tg_participants |-> Committed(session(w)).tg_participants]]

\* A catch that reports the error and ends without a ROLLBACK.
catchRunWithoutRollback(w, job) ==
    endRun(sendMessage(w, job.chatId, <<"An unexpected error occurred">>),
           job, "failed")

\* bot.js 768-770: the catch of the run.
catchRun(w, job) ==
    clientQuery(w, [job EXCEPT !.at = "ROLLBACK in catch",
                               !.query = [sql |-> "ROLLBACK"]])

\* A ROLLBACK inside the loop with the notice sent before it is awaited.
rollbackRunNotifyingFirst(w, job, at) ==
    clientQuery(sendMessage(w, job.chatId, <<"No changes were saved">>),
                [job EXCEPT !.at = at, !.query = [sql |-> "ROLLBACK"]])

\* bot.js 701, 713, 728, 743: a ROLLBACK inside the loop.
rollbackRun(w, job, at) ==
    clientQuery(w, [job EXCEPT !.at = at, !.query = [sql |-> "ROLLBACK"]])

\* bot.js 683-721 and 758-759: the for loop over the groups from group i
\* (counted from 1) to the next query.
RECURSIVE processGroups(_, _, _)
processGroups(w, job, i) ==
    IF i > Len(job.createdGroupsByName)
    THEN {clientQuery(w, [job EXCEPT !.at = "COMMIT", !.i = i,
                                     !.query = [sql |-> "COMMIT"]])}
    ELSE
        LET groupNames == job.createdGroupsByName[i]
        IN  IF Len(groupNames) < 2 THEN processGroups(w, job, i + 1)
            ELSE
                {IF r.threw
                 THEN rollbackRun(w, [job EXCEPT !.i = i, !.error = r.error],
                                  "ROLLBACK after matching failed")
                 ELSE IF Len(r.matches) = 0
                 THEN rollbackRun(w, [job EXCEPT !.i = i],
                                  "ROLLBACK after empty matching")
                 ELSE clientQuery(w,
                          [job EXCEPT !.at = "INSERT INTO tg_groups", !.i = i,
                                      !.matches = r.matches,
                                      !.query = [sql |-> "INSERT_GROUP",
                                                 group_name |-> <<"Secret Angel Group", i>>,
                                                 run |-> job.run]]) :
                    r \in assignSecretAngels(groupNames, job.restrictions)}

\* bot.js 725-735: the loop over the members from member k, then
\* bot.js 739-753: the loop over the matches from match k.
insertAssignments(w, job, k) ==
    IF k > Len(job.matches) THEN processGroups(w, job, job.i + 1)
    ELSE
        LET giverId == participantMap(job.participants, job.matches[k].giver)
            receiverId == participantMap(job.participants, job.matches[k].receiver)
        IN  IF giverId.null \/ receiverId.null
            THEN {rollbackRun(w, job, "ROLLBACK after unmapped assignment")}
            ELSE {clientQuery(w,
                     [job EXCEPT !.at = "INSERT INTO tg_assignments", !.k = k,
                                 !.query = [sql |-> "INSERT_ASSIGNMENT",
                                            group_id |-> job.groupId,
                                            giver_participant_id |-> giverId.value,
                                            receiver_participant_id |-> receiverId.value,
                                            run |-> job.run]])}

insertMembers(w, job, k) ==
    IF k > Len(job.createdGroupsByName[job.i]) THEN insertAssignments(w, job, 1)
    ELSE
        LET participantId ==
                participantMap(job.participants, job.createdGroupsByName[job.i][k])
        IN  IF participantId.null
            THEN {rollbackRun(w, job, "ROLLBACK after unmapped member")}
            ELSE {clientQuery(w,
                     [job EXCEPT !.at = "INSERT INTO tg_group_members", !.k = k,
                                 !.query = [sql |-> "INSERT_MEMBER",
                                            group_id |-> job.groupId,
                                            participant_id |-> participantId.value,
                                            run |-> job.run]])}

\* The run of bot.js 670-776 after the query job.query has returned result.
resumeRun(w, job, result) ==
    CASE job.at = "ROLLBACK in catch" ->
            {endRun(sendMessage(w, job.chatId, <<"An unexpected error occurred">>),
                    job, "failed")}
      [] job.at # "ROLLBACK in catch" /\ result.err -> {catchRun(w, job)}
      [] job.at = "BEGIN" /\ ~result.err ->
            {clientQuery(w,
                [job EXCEPT !.at = "TRUNCATE",
                            !.before = GroupTables(Committed(session(w))),
                            !.query = [sql |-> "TRUNCATE_GROUPS"]])}
      [] job.at = "TRUNCATE" /\ ~result.err ->
            UNION {LET g == assignParticipantsToGroups(
                                participantNames(job.participants),
                                job.numGroups, rnd)
                   IN  IF g.threw THEN {catchRun(w, job)}
                       ELSE processGroups(w,
                                [job EXCEPT !.createdGroupsByName = g.groups], 1) :
                      rnd \in RandomInts(Len(job.participants))}
      [] job.at = "INSERT INTO tg_groups" /\ ~result.err ->
            LET groupId == (CHOOSE r \in result.rows : TRUE).group_id
            IN  insertMembers(w,
                    [job EXCEPT !.groupId = groupId,
                                !.inserted.tg_groups = @ \cup
                                    {[group_id |-> groupId,
                                      group_name |-> job.query.group_name,
                                      run |-> job.run]}], 1)
      [] job.at = "INSERT INTO tg_group_members" /\ ~result.err ->
            insertMembers(w,
                [job EXCEPT !.inserted.tg_group_members = @ \cup
                                {[group_id |-> job.query.group_id,
                                  participant_id |-> job.query.participant_id,
                                  run |-> job.run]}], job.k + 1)
      [] job.at = "INSERT INTO tg_assignments" /\ ~result.err ->
            insertAssignments(w,
                [job EXCEPT !.totalAssignments = @ + 1,
                            !.assignmentsSummary = Append(@, job.matches[job.k]),
                            !.inserted.tg_assignments = @ \cup
                                {[group_id |-> job.query.group_id,
                                  giver_participant_id |-> job.query.giver_participant_id,
                                  receiver_participant_id |-> job.query.receiver_participant_id,
                                  run |-> job.run]}], job.k + 1)
      [] job.at = "COMMIT" /\ ~result.err ->
            {endRun(sendMessage(w, job.chatId,
                        <<"Successfully created", Len(job.createdGroupsByName),
                          job.totalAssignments>>), job, "success")}
      [] job.at = "ROLLBACK after matching failed" /\ ~result.err ->
            {endRun(sendMessage(w, job.chatId,
                        <<"Failed to create assignments for group", job.i,
                          job.error>>), job, "failed")}
      [] job.at \in {"ROLLBACK after empty matching",
                     "ROLLBACK after unmapped member",
                     "ROLLBACK after unmapped assignment"} /\ ~result.err ->
            {endRun(sendMessage(w, job.chatId, <<"No changes were saved">>),
                    job, "failed")}

\* The callback of the upsert that clears the state only when the upsert has
\* succeeded.
onRegisteredKeepingOnError(w, job, result) ==
    IF result.err
    THEN sendMessage(w, job.chatId, <<"error trying to register you">>)
    ELSE deleteUserState(
             sendMessage(w, job.chatId,
                 <<"You're registered", job.name, job.sanitizedWishlist # <<>> >>),
             job.chatId)

\* The callback of the upsert of a participant (bot.js 543-557).
onRegistered(w, job, result) ==
    deleteUserState(
        sendMessage(w, job.chatId,
            IF result.err THEN <<"error trying to register you">>
            ELSE <<"You're registered", job.name,
                   job.sanitizedWishlist # <<>> >>),
        job.chatId)

\* Every handler after the query job.query has returned result.
resume(w, job, result) ==
    CASE job.handler = "register" -> {onRegistered(w, job, result)}
      [] job.handler = "participants" ->
            {IF result.err
             THEN sendMessage(w, job.chatId, <<"error fetching the participant list">>)
             ELSE IF result.rows = {}
             THEN sendMessage(w, job.chatId, <<"No participants have registered yet">>)
             ELSE sendMessage(w, job.chatId, <<"Registered Participants", result.rows>>)}
      [] job.handler = "cleardata" ->
            {deleteUserState(
                 sendMessage(w, job.chatId,
                     IF result.err THEN <<"Failed to clear">> ELSE <<"cleared">>),
                 job.chatId)}
      [] job.handler = "creategroups" ->
            {IF result.err
             THEN sendMessage(w, job.chatId, <<"error before group creation">>)
             ELSE IF Cardinality(result.rows) < 2
             THEN sendMessage(w, job.chatId, <<"You need at least 2">>)
             ELSE [sendMessage(w, job.chatId,
                       <<"How many groups", Cardinality(result.rows)>>)
                     EXCEPT !.userState[job.chatId] =
                         [state |-> "awaiting_num_groups",
                          participantCount |-> Cardinality(result.rows),
                          participants |-> rowsArray(result.rows)]]}
      [] job.handler = "myassignment" ->
            IF result.err
            THEN {deleteUserState(
                      sendMessage(w, job.chatId, <<"error fetching your assignment">>),
                      job.chatId)}
            ELSE IF job.at = "assignment"
            THEN IF result.rows # {}
                 THEN {deleteUserState(
                           sendMessage(w, job.chatId,
                               <<"you are the Secret Angel for", job.sanitizedName,
                                 assignment.receiver_name,
                                 assignment.receiver_wishlist>>),
                           job.chatId) : assignment \in result.rows}
                 ELSE {clientQuery(w,
                          [job EXCEPT !.at = "participantCheck",
                                      !.query = [sql |-> "SELECT_PARTICIPANT",
                                                 name |-> job.sanitizedName]])}
            ELSE {deleteUserState(
                      sendMessage(w, job.chatId,
                          IF result.rows # {}
                          THEN <<"assignments haven't been made yet", job.sanitizedName>>
                          ELSE <<"couldn't find a registration", job.sanitizedName>>),
                      job.chatId)}
      [] job.handler = "run" -> resumeRun(w, job, result)

(***************************************************************************)
(* The steps of the bot.  The library hands an update first to the         *)
(* listener of 'message' and then to every onText handler whose pattern    *)
(* occurs in the text, in the order of their registration (bot.js 346,     *)
(* 353, 373, 392, 434, 455); each runs to its first await before the next  *)
(* starts.  limited gives the answer of isRateLimited to each of them.     *)
(***************************************************************************)
Slash(word) == <<"/">> \o word

CmdStart == Slash(<<"s", "t", "a", "r", "t">>)
CmdRegister == Slash(<<"r", "e", "g", "i", "s", "t", "e", "r">>)
CmdMyAssignment == Slash(<<"m", "y", "a", "s", "s", "i", "g", "n", "m", "e", "n", "t">>)
CmdParticipants == Slash(<<"p", "a", "r", "t", "i", "c", "i", "p", "a", "n", "t", "s">>)
CmdClearData == Slash(<<"c", "l", "e", "a", "r", "d", "a", "t", "a">>)
CmdCreateGroups == Slash(<<"c", "r", "e", "a", "t", "e", "g", "r", "o", "u", "p", "s">>)

Listeners == {"message", "start", "register", "myassignment", "participants",
              "cleardata", "creategroups"}

\* The pattern of the command that calls the handler l (bot.js 346-455).
CommandOf(l) ==
    CASE l = "start" -> CmdStart
      [] l = "register" -> CmdRegister
      [] l = "myassignment" -> CmdMyAssignment
      [] l = "participants" -> CmdParticipants
      [] l = "cleardata" -> CmdClearData
      [] l = "creategroups" -> CmdCreateGroups

\* bot.onText(pattern, handler): handler runs if pattern occurs in the text.
onText(w, msg, pattern, listener, limited) ==
    IF ~matches(msg.text, pattern) THEN w
    ELSE CASE listener = "start" -> onStart(w, msg)
           [] listener = "register" -> onRegister(w, msg, limited[listener])
           [] listener = "myassignment" -> onMyAssignment(w, msg, limited[listener])
           [] listener = "participants" -> onParticipants(w, msg, limited[listener])
           [] listener = "cleardata" -> onClearData(w, msg, limited[listener])
           [] listener = "creategroups" -> onCreateGroups(w, msg, limited[listener])

processUpdate(w, msg, limited) ==
    onText(
     onText(
      onText(
       onText(
        onText(
         onText(onMessage(w, msg, limited["message"]),
                msg, CmdStart, "start", limited),
         msg, CmdRegister, "register", limited),
        msg, CmdMyAssignment, "myassignment", limited),
       msg, CmdParticipants, "participants", limited),
      msg, CmdClearData, "cleardata", limited),
     msg, CmdCreateGroups, "creategroups", limited)

Apply(w) ==
    /\ ADMIN_USER_ID' = w.ADMIN_USER_ID
    /\ userState' = w.userState
    /\ queryQueue' = w.queryQueue
    /\ db' = w.db
    /\ txn' = w.txn
    /\ runs' = w.runs
    /\ sent' = w.sent
    /\ finished' = w.finished
    /\ event' = w.event

\* Bounds on the handlers in flight, the runs started and the ids handed out.
MaxInFlight == 2
MaxRuns == 2
MaxParticipantId == 3
StaleInFlight == 1
StaleRuns == 1

pendingRegistrations(queue) ==
    Cardinality({k \in 1..Len(queue) : queue[k].handler = "register"})

\* The bounds on the handlers in flight, the runs started and the ids handed
\* out hold in w, and w is the next state of the bot.
Accept(w, bounds) ==
    /\ Len(w.queryQueue) <= bounds.inFlight
    /\ w.runs <= bounds.runs
    /\ w.db.participants_id_seq + pendingRegistrations(w.queryQueue)
           <= bounds.ids
    /\ Apply(w)

\* An update arrives: one of updates, with one of the answers of the rate
\* limiter in limits.
Receive(updates, limits, bounds) ==
    /\ \E msg \in updates, limited \in limits :
          Accept([processUpdate(World, msg, limited)
                     EXCEPT !.event = [type |-> "update", msg |-> msg,
                                       limited |-> limited,
                                       state |-> userState[msg.chatId]]],
                 bounds)
    /\ UNCHANGED pureVars

\* The handler of job goes on with result, the result of its query.
Resume(job, result) ==
    \E w \in resume([World EXCEPT !.queryQueue = Tail(@),
                                 !.db = result.db, !.txn = result.txn],
                     job, result) :
        Apply([w EXCEPT !.event = [type |-> "result", handler |-> job.handler,
                                   chatId |-> job.chatId, query |-> job.query,
                                   err |-> result.err,
                                   state |-> userState[job.chatId]]])

\* The client sends the query at the head of its queue; the store executes
\* it; the handler that awaited it runs to its next query or its end.
DbStep ==
    /\ queryQueue # <<>>
    /\ Resume(Head(queryQueue), execute(session(World), Head(queryQueue).query))
    /\ UNCHANGED pureVars

Admin == 1000

AdminChats == {1, 2}

Unlimited == [l \in Listeners |-> FALSE]

Registered(names) ==
    {[id |-> k, name |-> names[k], wishlist |-> <<>>] : k \in 1..Len(names)}

\* The rows a run of number run leaves for one group of the two participants
\* with ids 1 and 2.
RunOfTwo(run) ==
    [tg_groups |-> {[group_id |-> 1, group_name |-> <<"Secret Angel Group", 1>>,
                     run |-> run]},
     tg_group_members |-> {[group_id |-> 1, participant_id |-> k, run |-> run] :
                              k \in {1, 2}},
     tg_assignments |-> {[group_id |-> 1, giver_participant_id |-> k,
                          receiver_participant_id |-> 3 - k, run |-> run] :
                            k \in {1, 2}}]

\* The bot at rest, configured with the admin id admin, with the participants
\* of names registered in this order and the rows of groupTables, left by
\* groupsCreated groups of earlier runs.
BotInitAs(admin, names, groupTables, groupsCreated) ==
    /\ ADMIN_USER_ID = admin
    /\ userState = [c \in AdminChats |-> NoState]
    /\ queryQueue = <<>>
    /\ db = [tg_participants |-> Registered(names),
             tg_groups |-> groupTables.tg_groups,
             tg_group_members |-> groupTables.tg_group_members,
             tg_assignments |-> groupTables.tg_assignments,
             participants_id_seq |-> Len(names),
             groups_id_seq |-> groupsCreated]
    /\ txn = NoTransaction
    /\ runs = 0
    /\ sent = <<>>
    /\ finished = NoRun
    /\ event = NoEvent

BotInit(names, groupTables, groupsCreated) ==
    BotInitAs(Admin, names, groupTables, groupsCreated)

(***************************************************************************)
(* Two participants, the rows of an earlier run, and the admin in two       *)
(* chats, who goes through the creategroups flow in each of them.          *)
(***************************************************************************)
RunTexts ==
    {CmdCreateGroups, <<"1">>, <<"2">>, <<"n", "o", "n", "e">>, <<"A", ",", "B">>}

RunUpdates ==
    {[chatId |-> c, userId |-> Admin, text |-> t] : c \in AdminChats, t \in RunTexts}

Init ==
    /\ gp = GpIdle /\ sa = SaIdle /\ vr = VrIdle /\ rl = RlIdle
    /\ BotInit(<< <<"A">>, <<"B">> >>, RunOfTwo(0), 1)

RunBounds ==
    [inFlight |-> MaxInFlight, runs |-> MaxRuns, ids |-> MaxParticipantId]

Next == Receive(RunUpdates, {Unlimited}, RunBounds) \/ DbStep

Spec == Init /\ [][Next]_vars

(***************************************************************************)
(* Three participants and the admin in two chats: the creategroups flow in *)
(* the first, cleardata and registrations in the second.                   *)
(***************************************************************************)
\* The admin answers what the bot has asked in the chat.
StaleTexts(chatId, state) ==
    IF chatId = 1
    THEN CASE state = "none" -> {CmdCreateGroups}
           [] state = "awaiting_num_groups" -> {<<"2">>}
           [] state = "awaiting_restrictions" -> {<<"A", ",", "B">>}
           [] OTHER -> {}
    ELSE CASE state = "none" -> {CmdClearData, CmdRegister}
           [] state = "awaiting_clear_confirmation" -> {<<"y", "e", "s">>}
           [] state = "awaiting_name" -> {<<"A">>, <<"B">>}
           [] state = "awaiting_wishlist" -> {<<"s", "k", "i", "p">>}
           [] OTHER -> {}

StaleUpdates ==
    UNION {{[chatId |-> c, userId |-> Admin, text |-> t] :
               t \in StaleTexts(c, userState[c].state)} : c \in AdminChats}

InitStale ==
    /\ gp = GpIdle /\ sa = SaIdle /\ vr = VrIdle /\ rl = RlIdle
    /\ BotInit(<< <<"A">>, <<"B">>, <<"C">> >>, EmptyGroupTables, 0)

StaleBounds ==
    [inFlight |-> StaleInFlight, runs |-> StaleRuns, ids |-> MaxParticipantId]

NextStale == Receive(StaleUpdates, {Unlimited}, StaleBounds) \/ DbStep

SpecStale == InitStale /\ [][NextStale]_vars

(***************************************************************************)
(* Two participants and one chat with two callers, the admin and a guest,  *)
(* who send commands and replies in any order; the admin id may be missing *)
(* from the configuration.  No registration completes: the roster stays as *)
(* it is.  In SpecChat the rate limiter lets every message through; in     *)
(* SpecCommands the callers send commands only, under every answer of the  *)
(* rate limiter.                                                           *)
(***************************************************************************)
Guest == 2000

CmdUnknown == Slash(<<"x">>)

\* A reply in which a command occurs after the first word.
Mention(word, command) == word \o <<" ">> \o command

\* The commands, and the replies that the state of the chat makes sense of:
\* well-formed ones, ill-formed ones and ones that mention a command.
ChatTexts(state) ==
    {CmdStart, CmdRegister, CmdMyAssignment, CmdParticipants, CmdClearData,
     CmdCreateGroups, CmdUnknown,
     Mention(<<"n", "o">>, CmdRegister), Mention(<<"n", "o">>, CmdStart)}
    \cup
    CASE state \in {"awaiting_name", "awaiting_name_for_assignment"} ->
            {<<"A">>, <<"!">>}
      [] state = "awaiting_clear_confirmation" ->
            {<<"y", "e", "s">>, <<"Y", "e", "s">>, <<"n", "o">>}
      [] state = "awaiting_num_groups" ->
            {<<"1">>, <<"2">>, <<"3">>, <<"0">>, <<"x">>, <<"2", "x">>}
      [] state = "awaiting_restrictions" ->
            {<<"A", ",", "B">>, <<"n", "o", "n", "e">>, <<"A", ",", "A">>,
             <<"A", ",", "C">>, <<"A">>}
      [] OTHER -> {<<"x">>}

ChatUpdates ==
    {[chatId |-> 1, userId |-> u, text |-> t] :
        u \in {Admin, Guest}, t \in ChatTexts(userState[1].state)}

\* The answers of isRateLimited to the listener and to the command handlers.
Limited(listener, handlers) ==
    [l \in Listeners |-> IF l = "message" THEN listener ELSE handlers]

ChatLimits == {Limited(a, b) : a \in BOOLEAN, b \in BOOLEAN}

ChatInFlight == 1
ChatRuns == 1

ChatRoster == << <<"A">>, <<"B">> >>

InitChat ==
    /\ gp = GpIdle /\ sa = SaIdle /\ vr = VrIdle /\ rl = RlIdle
    /\ \E admin \in {Admin, 0} : BotInitAs(admin, ChatRoster, RunOfTwo(0), 1)

ChatBounds ==
    [inFlight |-> ChatInFlight, runs |-> ChatRuns, ids |-> Len(ChatRoster)]

NextChat == Receive(ChatUpdates, {Unlimited}, ChatBounds) \/ DbStep

SpecChat == InitChat /\ [][NextChat]_vars

CommandUpdates == {msg \in ChatUpdates : msg.text[1] = "/"}

NextCommands == Receive(CommandUpdates, ChatLimits, ChatBounds) \/ DbStep

SpecCommands == InitChat /\ [][NextCommands]_vars

(***************************************************************************)
(* Two participants, the rows of an earlier run, and the admin in two      *)
(* chats: the creategroups flow in the first, cleardata in the second,     *)
(* while the queries of the first are in flight.                           *)
(***************************************************************************)
WipeTexts(chatId, state) ==
    IF chatId = 1
    THEN CASE state = "none" -> {CmdCreateGroups}
           [] state = "awaiting_num_groups" -> {<<"1">>}
           [] state = "awaiting_restrictions" -> {<<"n", "o", "n", "e">>}
           [] OTHER -> {}
    ELSE CASE state = "none" -> {CmdClearData, CmdCreateGroups}
           [] state = "awaiting_clear_confirmation" -> {<<"y", "e", "s">>, <<"n", "o">>}
           [] OTHER -> {}

WipeUpdates ==
    UNION {{[chatId |-> c, userId |-> Admin, text |-> t] :
               t \in WipeTexts(c, userState[c].state)} : c \in AdminChats}

WipeBounds ==
    [inFlight |-> MaxInFlight, runs |-> StaleRuns, ids |-> Len(ChatRoster)]

NextWipe == Receive(WipeUpdates, {Unlimited}, WipeBounds) \/ DbStep

SpecWipe == InitChat /\ [][NextWipe]_vars

(***************************************************************************)
(* One participant and two chats that register at the same time, a name   *)
(* of the roster or a new one, with two handlers in flight and a store     *)
(* that may fail any query.                                                *)
(***************************************************************************)

\* The store fails the statement at the head of the queue of the client
\* without executing it (a lock or statement timeout, a full disk): the
\* callback of the query gets the error.  A ROLLBACK is not failed: the
\* server executes it in every state of the session, and the loss of the
\* connection ends the process (the client of bot.js 65 has no listener
\* for 'error').
DbFault ==
    /\ queryQueue # <<>>
    /\ Head(queryQueue).query.sql # "ROLLBACK"
    /\ Resume(Head(queryQueue), Failed(session(World)))
    /\ UNCHANGED pureVars

\* Two chats register at the same time: the command, names that are valid (one
\* registered already, one new) or not, and wishlists that are 'skip', a
\* text, or a text that mentions a command.
RegisterTexts(state) ==
    CASE state = "none" -> {CmdRegister}
      [] state = "awaiting_name" ->
            {<<"A">>, <<" ", "C">>, <<"!">>, Mention(<<"n", "o">>, CmdRegister)}
      [] state = "awaiting_wishlist" ->
            {<<"S", "k", "i", "p">>, <<"t", "e", "a">>,
             Mention(<<"t", "e", "a">>, CmdStart), CmdRegister}
      [] OTHER -> {}

RegisterUpdates ==
    UNION {{[chatId |-> c, userId |-> IF c = 1 THEN Admin ELSE Guest, text |-> t] :
               t \in RegisterTexts(userState[c].state)} : c \in AdminChats}

RegisterRoster == << <<"A">> >>

MaxRegistrations == 4

InitRegister ==
    /\ gp = GpIdle /\ sa = SaIdle /\ vr = VrIdle /\ rl = RlIdle
    /\ BotInit(RegisterRoster, EmptyGroupTables, 0)

RegisterBounds ==
    [inFlight |-> MaxInFlight, runs |-> 0, ids |-> MaxRegistrations]

NextRegister ==
    Receive(RegisterUpdates, {Unlimited}, RegisterBounds) \/ DbStep \/ DbFault

SpecRegister == InitRegister /\ [][NextRegister]_vars

(***************************************************************************)
(* Three participants, two of them with the assignments of an earlier run: *)
(* a chat looks assignments up while the admin, in the other chat, may     *)
(* clear all data; the store may fail any query.                           *)
(***************************************************************************)
LookupTexts(chatId, state) ==
    IF chatId = 1
    THEN CASE state = "none" -> {CmdMyAssignment}
           [] state = "awaiting_name_for_assignment" ->
                 {<<"a">>, <<" ", "C">>, <<"D">>, <<"!">>}
           [] OTHER -> {}
    ELSE CASE state = "none" -> {CmdClearData}
           [] state = "awaiting_clear_confirmation" -> {<<"y", "e", "s">>}
           [] OTHER -> {}

LookupUpdates ==
    UNION {{[chatId |-> c, userId |-> IF c = 1 THEN Guest ELSE Admin, text |-> t] :
               t \in LookupTexts(c, userState[c].state)} : c \in AdminChats}

LookupRoster == << <<"A">>, <<"B">>, <<"C">> >>

InitLookup ==
    /\ gp = GpIdle /\ sa = SaIdle /\ vr = VrIdle /\ rl = RlIdle
    /\ BotInit(LookupRoster, RunOfTwo(0), 1)

LookupBounds ==
    [inFlight |-> MaxInFlight, runs |-> 0, ids |-> Len(LookupRoster)]

NextLookup ==
    Receive(LookupUpdates, {Unlimited}, LookupBounds) \/ DbStep \/ DbFault

SpecLookup == InitLookup /\ [][NextLookup]_vars

(***************************************************************************)
(* Two participants: the admin runs creategroups in one chat, with one     *)
(* group and no restriction or the restriction A, B that no assignment of  *)
(* the group satisfies, while the other chat registers C or A.             *)
(***************************************************************************)
RollbackTexts(chatId, state) ==
    IF chatId = 1
    THEN CASE state = "none" -> {CmdCreateGroups}
           [] state = "awaiting_num_groups" -> {<<"1">>}
           [] state = "awaiting_restrictions" ->
                 {<<"n", "o", "n", "e">>, <<"A", ",", "B">>}
           [] OTHER -> {}
    ELSE CASE state = "none" -> {CmdRegister}
           [] state = "awaiting_name" -> {<<"A">>, <<"C">>}
           [] state = "awaiting_wishlist" -> {<<"t", "e", "a">>}
           [] OTHER -> {}

RollbackUpdates ==
    UNION {{[chatId |-> c, userId |-> IF c = 1 THEN Admin ELSE Guest, text |-> t] :
               t \in RollbackTexts(c, userState[c].state)} : c \in AdminChats}

InitRollback ==
    /\ gp = GpIdle /\ sa = SaIdle /\ vr = VrIdle /\ rl = RlIdle
    /\ BotInit(ChatRoster, EmptyGroupTables, 0)

RollbackBounds ==
    [inFlight |-> MaxInFlight, runs |-> StaleRuns, ids |-> MaxParticipantId]

NextRollback == Receive(RollbackUpdates, {Unlimited}, RollbackBounds) \/ DbStep

SpecRollback == InitRollback /\ [][NextRollback]_vars

(***************************************************************************)
(* One call of validateRestrictionsInput: an input of lines, or one of the *)
(* special inputs, and a roster.                                           *)
(***************************************************************************)
MaxLines == 2

\* The lines the inputs are made of: pairs in and out of the roster, with
\* and without spaces, a name alone, three names, a missing name, a pair of
\* one name, an empty and a blank line, and the word none.
VrLines ==
    {<<"A", ",", "B">>, <<"B", ",", "A">>, <<" ", "A", " ", ",", " ", "C", " ">>,
     <<"A", ",", "A">>, <<"A">>, <<"A", ",", "B", ",", "C">>, <<",", "B">>,
     <<>>, <<" ">>, <<"n", "o", "n", "e">>}

RECURSIVE JoinLines(_)
JoinLines(lines) ==
    IF Len(lines) = 0 THEN <<>>
    ELSE IF Len(lines) = 1 THEN lines[1]
    ELSE lines[1] \o <<"\n">> \o JoinLines(Tail(lines))

\* A pair of the roster followed by spaces, longer than the longest input.
VrTooLong ==
    [k \in 1..(MAX_RESTRICTIONS_INPUT_LENGTH + 1) |->
        IF k = 1 THEN "A" ELSE IF k = 2 THEN "," ELSE IF k = 3 THEN "B" ELSE " "]

VrTexts ==
    {JoinLines(lines) : lines \in UNION {[1..n -> VrLines] : n \in 1..MaxLines}}
        \cup {<<>>, <<" ", "N", "o", "N", "e", "\n">>, VrTooLong}

VrRosters == {{<<"A">>, <<"B">>}, {<<"A">>, <<"B">>, <<"C">>}}

VrInputs ==
    {[pc |-> "called", input |-> t, validParticipants |-> r, result |-> Null] :
        t \in VrTexts, r \in VrRosters}

\* validateRestrictionsInput runs from its entry to its return.
VrCall ==
    /\ vr.pc = "called"
    /\ vr' = [vr EXCEPT !.pc = "returned",
                        !.result = validateRestrictionsInput(vr.input,
                                                             vr.validParticipants)]
    /\ UNCHANGED <<gp, sa, rl, botVars>>

InitParsing ==
    /\ vr \in VrInputs /\ gp = GpIdle /\ sa = SaIdle /\ rl = RlIdle
    /\ BotInit(<<>>, EmptyGroupTables, 0)

NextParsing == VrCall

SpecParsing == InitParsing /\ [][NextParsing]_vars

(***************************************************************************)
(* Two participants and the rows of an earlier run: the admin runs         *)
(* creategroups in one chat while, in the other, he registers, looks an    *)
(* assignment up, lists the participants or clears all data.               *)
(***************************************************************************)
WritersTexts(chatId, state) ==
    IF chatId = 1
    THEN CASE state = "none" -> {CmdCreateGroups}
           [] state = "awaiting_num_groups" -> {<<"1">>}
           [] state = "awaiting_restrictions" -> {<<"n", "o", "n", "e">>}
           [] OTHER -> {}
    ELSE CASE state = "none" ->
                 {CmdRegister, CmdMyAssignment, CmdParticipants,
                  CmdClearData}
           [] state = "awaiting_name" -> {<<"A">>}
           [] state = "awaiting_wishlist" -> {<<"t", "e", "a">>}
           [] state = "awaiting_name_for_assignment" -> {<<"A">>}
           [] state = "awaiting_clear_confirmation" -> {<<"y", "e", "s">>}
           [] OTHER -> {}

WritersUpdates ==
    UNION {{[chatId |-> c, userId |-> Admin, text |-> t] :
               t \in WritersTexts(c, userState[c].state)} : c \in AdminChats}

InitWriters ==
    /\ gp = GpIdle /\ sa = SaIdle /\ vr = VrIdle /\ rl = RlIdle
    /\ BotInit(ChatRoster, RunOfTwo(0), 1)

WritersBounds ==
    [inFlight |-> MaxInFlight, runs |-> StaleRuns, ids |-> MaxParticipantId]

NextWriters == Receive(WritersUpdates, {Unlimited}, WritersBounds) \/ DbStep

SpecWriters == InitWriters /\ [][NextWriters]_vars

(***************************************************************************)
(* Three participants and one chat: the admin goes through the creategroups *)
(* flow, with one group or two and with no restriction or the restriction  *)
(* A, B, which no assignment of a group with A and B satisfies; the store  *)
(* may fail any statement of the run.                                      *)
(***************************************************************************)
FaultsTexts(state) ==
    CASE state = "none" -> {CmdCreateGroups}
      [] state = "awaiting_num_groups" -> {<<"1">>, <<"2">>}
      [] state = "awaiting_restrictions" ->
            {<<"n", "o", "n", "e">>, <<"A", ",", "B">>}
      [] OTHER -> {}

FaultsUpdates ==
    {[chatId |-> 1, userId |-> Admin, text |-> t] :
        t \in FaultsTexts(userState[1].state)}

FaultsRoster == << <<"A">>, <<"B">>, <<"C">> >>

InitFaults ==
    /\ gp = GpIdle /\ sa = SaIdle /\ vr = VrIdle /\ rl = RlIdle
    /\ BotInit(FaultsRoster, RunOfTwo(0), 1)

FaultsBounds ==
    [inFlight |-> StaleInFlight, runs |-> MaxRuns, ids |-> Len(FaultsRoster)]

NextFaults ==
    Receive(FaultsUpdates, {Unlimited}, FaultsBounds) \/ DbStep \/ DbFault

SpecFaults == InitFaults /\ [][NextFaults]_vars

(***************************************************************************)
(* The rate limiter alone: the admin and a guest call isRateLimited, time  *)
(* passes and the cleanup of the store runs, in any order.                 *)
(***************************************************************************)
\* Bounds on the calls counted in one window and on the readings of the clock.
MaxRequests == 12
MaxTicks == 3

RlUsers == {Admin, Guest}

\* The time between two readings of the clock: a millisecond, a window less
\* a millisecond, a window.
RlDelays == {1, RATE_LIMIT_WINDOW - 1, RATE_LIMIT_WINDOW}

\* The calls that the store has counted for the user.
RlCountOf(r, userId) ==
    IF UserKey(userId) \in DOMAIN r.rateLimitStore
    THEN r.rateLimitStore[UserKey(userId)].count
    ELSE 0

\* A call of isRateLimited(userId).
RlCall ==
    /\ \E userId \in RlUsers :
          /\ RlCountOf(rl, userId) < MaxRequests
          /\ rl' = RlCalled(rl, userId)
    /\ UNCHANGED <<gp, sa, vr, botVars>>

\* Time passes; the step handles no message and no result.
RlTick ==
    /\ rl.ticks < MaxTicks
    /\ \E d \in RlDelays :
          rl' = [rl EXCEPT !.now = @ + d, !.ticks = @ + 1, !.op = "tick"]
    /\ sent' = <<>> /\ finished' = NoRun /\ event' = NoEvent
    /\ UNCHANGED <<gp, sa, vr, ADMIN_USER_ID, userState, queryQueue, db, txn, runs>>

\* rateLimit.js 56: the timer calls cleanupRateLimitStore.
RlCleanup ==
    /\ rl' = [rl EXCEPT
                !.rateLimitStore = cleanupRateLimitStore(@, rl.now),
                !.op = "cleanup"]
    /\ UNCHANGED <<gp, sa, vr, botVars>>

InitRateLimit ==
    /\ gp = GpIdle /\ sa = SaIdle /\ vr = VrIdle /\ rl = RlIdle
    /\ BotInit(ChatRoster, EmptyGroupTables, 0)

NextRateLimit == RlCall \/ RlTick \/ RlCleanup

SpecRateLimit == InitRateLimit /\ [][NextRateLimit]_vars

(***************************************************************************)
(* The admin sends commands in one chat, and the listener and the handlers *)
(* ask the rate limiter as the code does: the listener for every message,  *)
(* then the handler of each command that occurs in the text, but for the   *)
(* handler of start, which does not ask.                                   *)
(***************************************************************************)
DispatchOrder ==
    <<"message", "start", "register", "myassignment", "participants",
      "cleardata", "creategroups">>

\* The limiter after the calls of isRateLimited that the dispatch of msg makes
\* (bot.js 499, 358, 378, 397, 439, 460), and the answer to each listener.
RECURSIVE admissions(_, _, _, _)
admissions(r, msg, listeners, limited) ==
    IF listeners = <<>> THEN [rl |-> r, limited |-> limited]
    ELSE
        LET l == Head(listeners)
            asks == \/ l = "message"
                    \/ l # "start" /\ matches(msg.text, CommandOf(l))
        IN  IF asks
            THEN admissions(RlCalled(r, msg.userId), msg, Tail(listeners),
                            [limited EXCEPT ![l] = RlCalled(r, msg.userId).limited])
            ELSE admissions(r, msg, Tail(listeners), limited)

AdmissionTexts ==
    {CmdStart, CmdRegister, CmdMyAssignment, CmdParticipants}

AdmissionUpdates ==
    {[chatId |-> 1, userId |-> Admin, text |-> t] : t \in AdmissionTexts}

\* The update msg arrives and is dispatched with the admissions a.
Admitted(msg, a, bounds) ==
    /\ RlCountOf(a.rl, msg.userId) <= MaxRequests
    /\ Accept([processUpdate(World, msg, a.limited)
                  EXCEPT !.event = [type |-> "update", msg |-> msg,
                                    limited |-> a.limited,
                                    state |-> userState[msg.chatId]]],
              bounds)
    /\ rl' = a.rl

ReceiveAdmitted(updates, bounds) ==
    /\ \E msg \in updates :
          Admitted(msg, admissions(rl, msg, DispatchOrder, Unlimited), bounds)
    /\ UNCHANGED <<gp, sa, vr>>

InitAdmission ==
    /\ gp = GpIdle /\ sa = SaIdle /\ vr = VrIdle /\ rl = RlIdle
    /\ BotInit(ChatRoster, RunOfTwo(0), 1)

NextAdmission ==
    ReceiveAdmitted(AdmissionUpdates, ChatBounds) \/ DbStep \/ RlTick

SpecAdmission == InitAdmission /\ [][NextAdmission]_vars

InitGrouping ==
    /\ gp \in GpInputs /\ sa = SaIdle /\ vr = VrIdle /\ rl = RlIdle
    /\ BotInit(<<>>, EmptyGroupTables, 0)

SpecGrouping == InitGrouping /\ [][NextGrouping]_vars

InitMatching ==
    /\ sa \in SaInputs /\ gp = GpIdle /\ vr = VrIdle /\ rl = RlIdle
    /\ BotInit(<<>>, EmptyGroupTables, 0)

SpecMatching == InitMatching /\ [][NextMatching]_vars

(***************************************************************************)
(* Claims about the store under the runs of the bot.                       *)
(***************************************************************************)
\* The committed rows of the tables.
Store == Committed([db |-> db, txn |-> txn])

RunsOf(t) ==
    {g.run : g \in t.tg_groups} \cup {m.run : m \in t.tg_group_members}
        \cup {a.run : a \in t.tg_assignments}

\* C1: when a run that failed has finished, the Group, Membership and
\* Assignment tables hold exactly the rows they held before the run began,
\* and none of the rows the run inserted.
C1_FailedRunLeavesNoTrace ==
    finished.outcome = "failed" =>
        /\ finished.after = finished.before
        /\ finished.inserted.tg_groups \cap finished.after.tg_groups = {}
        /\ finished.inserted.tg_group_members
               \cap finished.after.tg_group_members = {}
        /\ finished.inserted.tg_assignments \cap finished.after.tg_assignments = {}

MembersOf(t, groupId) ==
    {m.participant_id : m \in {x \in t.tg_group_members : x.group_id = groupId}}

AssignmentsOf(t, groupId) == {a \in t.tg_assignments : a.group_id = groupId}

\* C2: in every state of the store the Assignment rows of each group are a
\* permutation without fixed point of the members of the group: every
\* member is the giver of exactly one row and the receiver of exactly one
\* row, and no row has its giver as its receiver.
C2_AssignmentsArePermutation ==
    \A g \in Store.tg_groups :
        /\ \A p \in MembersOf(Store, g.group_id) :
              /\ Cardinality({a \in AssignmentsOf(Store, g.group_id) :
                                 a.giver_participant_id = p}) = 1
              /\ Cardinality({a \in AssignmentsOf(Store, g.group_id) :
                                 a.receiver_participant_id = p}) = 1
        /\ \A a \in AssignmentsOf(Store, g.group_id) :
              /\ a.giver_participant_id # a.receiver_participant_id
              /\ a.giver_participant_id \in MembersOf(Store, g.group_id)
              /\ a.receiver_participant_id \in MembersOf(Store, g.group_id)

\* C4: in every state every Assignment row refers to a Group row, its giver
\* and its receiver are members of that group, and all Group, Membership
\* and Assignment rows come from one run.
C4_TablesFromOneRun ==
    /\ \A a \in Store.tg_assignments :
          /\ \E g \in Store.tg_groups : g.group_id = a.group_id
          /\ a.giver_participant_id \in MembersOf(Store, a.group_id)
          /\ a.receiver_participant_id \in MembersOf(Store, a.group_id)
    /\ Cardinality(RunsOf(Store)) <= 1

\* C5: right after the COMMIT of a successful run the Group, Membership and
\* Assignment tables hold exactly the rows this run inserted.
C5_SuccessfulRunReplaces ==
    finished.outcome = "success" => finished.after = finished.inserted

\* The name the Participant table of a finished run gives to an id, if any.
NamesOf(run, id) == {p.name : p \in {x \in run.tg_participants : x.id = id}}

\* C3: for every Assignment row a run committed, the names that the giver id
\* and the receiver id of the row denote in the Participant table are not a
\* pair of the restrictions of the run, in either order.
C3_NoRestrictedPairCommitted ==
    finished.outcome = "success" =>
        \A a \in finished.inserted.tg_assignments \cap finished.after.tg_assignments :
            \A giver \in NamesOf(finished, a.giver_participant_id),
               receiver \in NamesOf(finished, a.receiver_participant_id) :
                ~isRestricted(giver, receiver, finished.restrictions)

(***************************************************************************)
(* Claims about the conversation of a chat.  event is what the step just   *)
(* taken handled, with the state of the chat before it; in an action       *)
(* formula event' is what the step handles.                                *)
(***************************************************************************)
\* The update is a command: its text begins with a slash.
IsCommand(text) == Len(text) > 0 /\ text[1] = "/"

\* The step handles a command that the listener or the handler of the command
\* acts on: the rate limiter has not turned it away from both.
ActedOn(e) ==
    /\ e.type = "update" /\ IsCommand(e.msg.text)
    /\ \/ ~e.limited["message"]
       \/ e.msg.text = CmdStart
       \/ \E l \in Listeners \ {"message", "start"} :
             e.msg.text = CommandOf(l) /\ ~e.limited[l]

\* The state a command enters at once, if it enters one.
EnteredBy(text) ==
    IF text = CmdRegister THEN {[state |-> "awaiting_name"]}
    ELSE IF text = CmdMyAssignment THEN {[state |-> "awaiting_name_for_assignment"]}
    ELSE IF text = CmdClearData THEN {[state |-> "awaiting_clear_confirmation"]}
    ELSE {}

\* The first words of the messages that answer a reply.
ReplyAnswers ==
    {"Got it", "provide a valid name", "Confirmation error",
     "Data clearing cancelled", "State error: number of groups",
     "Please enter a valid number", "Okay, groups", "State error: restrictions",
     "Invalid restrictions format", "Processing"}

\* The jobs the step has put in the queue of the client.
Enqueued(before, after) ==
    {after[k] : k \in (Len(before) + 1)..Len(after)}

\* C11: when a command, recognised or not, arrives in a chat that has an
\* active state and is acted on, the state is discarded and the text is not
\* taken as the reply the state expected (no answer to a reply is sent, no
\* registration, lookup of an assignment, wipe or run is started), and the
\* chat is left idle or in the state the command enters; the roster read of
\* creategroups leaves the state alone or enters awaiting_num_groups.
C11_NewCommandWins ==
    [][
        /\ (ActedOn(event') /\ event'.state # NoState)
           => (/\ userState'[event'.msg.chatId] \in
                     {NoState} \cup EnteredBy(event'.msg.text)
               /\ \A k \in 1..Len(sent') :
                     sent'[k].message[1] \notin ReplyAnswers
               /\ \A job \in Enqueued(queryQueue, queryQueue') :
                     job.handler \in {"participants", "creategroups"}
               /\ runs' = runs
               /\ db' = db)
        /\ (event'.type = "result" /\ event'.handler = "creategroups")
           => (\/ userState' = userState
               \/ userState'[event'.chatId].state = "awaiting_num_groups")
      ]_vars

\* The caller is the configured admin.
IsAdminCaller(userId) == ADMIN_USER_ID # 0 /\ userId = ADMIN_USER_ID

AdminCommands == {CmdParticipants, CmdClearData, CmdCreateGroups}

\* The step tells the chat that the command is for admins only.
AdminsOnlySent(e) ==
    \E k \in 1..Len(sent') :
        sent'[k] = [chatId |-> e.msg.chatId, message |-> AdminsOnlyMessage]

\* The step has not read or written the store, nor asked it to.
StoreUntouched ==
    queryQueue' = queryQueue /\ db' = db /\ txn' = txn /\ runs' = runs

\* The step handles a participants, creategroups or cleardata command of a
\* caller who is not the admin.
NonAdminCommand(e) ==
    /\ e.type = "update" /\ e.msg.text \in AdminCommands
    /\ ~IsAdminCaller(e.msg.userId)

\* C12 as stated: an admin command that the rate limiter lets through to its
\* handler is answered "admins only" iff the caller id is not the configured,
\* non-zero admin id; an admin command of a non-admin caller leaves the state
\* of the chat as it was and the store untouched.
C12_RejectionKeepsState ==
    [][
        /\ (event'.type = "update" /\ event'.msg.text \in AdminCommands
            /\ ~event'.limited["cleardata"])
           => (AdminsOnlySent(event') <=> ~IsAdminCaller(event'.msg.userId))
        /\ NonAdminCommand(event')
           => (userState' = userState /\ StoreUntouched)
      ]_vars

\* C12 as amended: as above, but the state of the chat is left as it was or,
\* if it was active, discarded as by any command; no state is entered.
C12_AdminGating ==
    [][
        /\ (event'.type = "update" /\ event'.msg.text \in AdminCommands
            /\ ~event'.limited["cleardata"])
           => (AdminsOnlySent(event') <=> ~IsAdminCaller(event'.msg.userId))
        /\ NonAdminCommand(event')
           => (/\ userState'[event'.msg.chatId] \in
                     {userState[event'.msg.chatId], NoState}
               /\ \A c \in DOMAIN userState \ {event'.msg.chatId} :
                     userState'[c] = userState[c]
               /\ StoreUntouched)
      ]_vars

\* The guest has sent cleardata in a chat with an active state, has been told
\* that the command is for admins only, and the chat is idle.
C12_Witness ==
    /\ event.type = "update" /\ event.msg.text = CmdClearData
    /\ event.msg.userId = Guest /\ ADMIN_USER_ID = Admin
    /\ event.state # NoState
    /\ sent = <<[chatId |-> event.msg.chatId, message |-> AdminsOnlyMessage]>>
    /\ userState[event.msg.chatId] = NoState

AdminStates ==
    {"awaiting_clear_confirmation", "awaiting_num_groups", "awaiting_restrictions"}

\* The step handles a reply, a text that is not a command, in a chat whose
\* state is one of states.
ReplyIn(e, states) ==
    /\ e.type = "update" /\ ~IsCommand(e.msg.text)
    /\ e.state.state \in states

\* The step answers the chat with a message that begins with one of words.
Answered(e, words) ==
    \E k \in 1..Len(sent') :
        sent'[k].chatId = e.msg.chatId /\ sent'[k].message[1] \in words

\* C13: a reply of a caller who is not the admin, in awaiting_clear_confirmation,
\* awaiting_num_groups or awaiting_restrictions, is rejected, leaves the chat
\* idle, modifies no table and starts no run, whatever its text.
C13_NonAdminReplyClears ==
    [][(ReplyIn(event', AdminStates) /\ ~IsAdminCaller(event'.msg.userId))
          => (/\ Answered(event', {"Confirmation error",
                                   "State error: number of groups",
                                   "State error: restrictions"})
              /\ userState'[event'.msg.chatId] = NoState
              /\ StoreUntouched)
      ]_vars

\* The text is 'yes' in any mix of cases.
IsYes(text) ==
    /\ Len(text) = 3
    /\ text[1] \in {"y", "Y"} /\ text[2] \in {"e", "E"} /\ text[3] \in {"s", "S"}

\* The step handles a reply of the admin in awaiting_clear_confirmation.
ConfirmationReply(e) ==
    ReplyIn(e, {"awaiting_clear_confirmation"}) /\ IsAdminCaller(e.msg.userId)

AllTables == {"tg_participants", "tg_groups", "tg_group_members", "tg_assignments"}

\* C14: a wipe is started only by a reply 'yes', in any mix of cases, of the
\* admin in awaiting_clear_confirmation; when the wipe has succeeded the four
\* tables are empty and the chat is idle; any other reply of the admin in
\* awaiting_clear_confirmation leaves the four tables as they were and the
\* chat idle.
C14_WipeOnlyOnConfirmation ==
    [][
        /\ (\E job \in Enqueued(queryQueue, queryQueue') : job.handler = "cleardata")
           => (ConfirmationReply(event') /\ IsYes(event'.msg.text))
        /\ (ConfirmationReply(event') /\ IsYes(event'.msg.text))
           => (\E job \in Enqueued(queryQueue, queryQueue') : job.handler = "cleardata")
        /\ (event'.type = "result" /\ event'.handler = "cleardata")
           => (/\ userState'[event'.chatId] = NoState
               /\ ~event'.err => \A t \in AllTables : Store'[t] = {})
        /\ (ConfirmationReply(event') /\ ~IsYes(event'.msg.text))
           => (StoreUntouched /\ userState'[event'.msg.chatId] = NoState)
      ]_vars

\* The id and the name of every row of the Participant table, as the query
\* of the step sees the table.
Roster == {[id |-> p.id, name |-> p.name] : p \in db.tg_participants}

\* The step ends the roster read of a creategroups command.
RosterRead(e) == e.type = "result" /\ e.handler = "creategroups"

Numeral(n) == <<Digits[n + 1]>>

\* The step handles a reply of the admin in awaiting_num_groups that is the
\* numeral of n.
CountReply(e, n) ==
    /\ ReplyIn(e, {"awaiting_num_groups"}) /\ IsAdminCaller(e.msg.userId)
    /\ e.msg.text = Numeral(n)

\* C16: a reply of the admin in awaiting_num_groups that is an integer between
\* 1 and participantCount moves the chat to awaiting_restrictions, with that
\* count added to what the state held, and leaves the store untouched; every
\* state awaiting_restrictions and every run started hold a count between 1
\* and the size of their roster, with which the grouping does not throw.
C16_GroupCountInRange ==
    [][
        /\ \A n \in 1..9 :
              (CountReply(event', n) /\ n <= event'.state.participantCount)
                 => (/\ userState'[event'.msg.chatId] =
                           [state |-> "awaiting_restrictions",
                            participantCount |-> event'.state.participantCount,
                            participants |-> event'.state.participants,
                            numGroups |-> n]
                     /\ StoreUntouched)
        /\ \A c \in DOMAIN userState' :
              userState'[c].state = "awaiting_restrictions"
                 => userState'[c].numGroups \in 1..Len(userState'[c].participants)
        /\ \A job \in Enqueued(queryQueue, queryQueue') :
              job.handler = "run"
                 => (/\ job.numGroups \in 1..Len(job.participants)
                     /\ \A rnd \in RandomInts(Len(job.participants)) :
                           ~assignParticipantsToGroups(
                                participantNames(job.participants),
                                job.numGroups, rnd).threw)
      ]_vars

\* The admin has answered 2 in awaiting_num_groups with two participants and
\* the chat awaits the restrictions for 2 groups.
C16_Witness ==
    /\ event.type = "update" /\ event.msg.text = Numeral(2)
    /\ event.state.state = "awaiting_num_groups"
    /\ userState[event.msg.chatId].state = "awaiting_restrictions"
    /\ userState[event.msg.chatId].numGroups = 2

\* The step handles a reply of the admin in awaiting_restrictions whose text
\* is 'none', for no restriction, or the one pair of names A, B.
RestrictionsReply(e, restrictions) ==
    /\ ReplyIn(e, {"awaiting_restrictions"}) /\ IsAdminCaller(e.msg.userId)
    /\ \/ restrictions = <<>> /\ e.msg.text = <<"n", "o", "n", "e">>
       \/ /\ restrictions = << << <<"A">>, <<"B">> >> >>
          /\ e.msg.text = <<"A", ",", "B">>
          /\ {<<"A">>, <<"B">>} \subseteq Range(participantNames(e.state.participants))

\* C17: a reply of the admin in awaiting_restrictions that parses starts one
\* run, with the roster and the count of the state and the restrictions
\* parsed, and nothing else starts a run; when a run ends, committed or
\* failed, it sends one report, its chat is idle and no run is started again.
C17_OneRunPerReply ==
    [][
        /\ \A r \in {<<>>, << << <<"A">>, <<"B">> >> >>} :
              RestrictionsReply(event', r)
                 => (/\ Len(queryQueue') = Len(queryQueue) + 1
                     /\ \A job \in Enqueued(queryQueue, queryQueue') :
                           /\ job.handler = "run" /\ job.at = "BEGIN"
                           /\ job.participants = event'.state.participants
                           /\ job.numGroups = event'.state.numGroups
                           /\ job.restrictions = r
                     /\ runs' = runs + 1
                     /\ userState'[event'.msg.chatId] = NoState)
        /\ (runs' # runs
              \/ \E job \in Enqueued(queryQueue, queryQueue') :
                    job.handler = "run" /\ job.at = "BEGIN")
              => \E r \in {<<>>, << << <<"A">>, <<"B">> >> >>} :
                    RestrictionsReply(event', r)
        /\ finished' # NoRun
              => (/\ event'.type = "result" /\ event'.handler = "run"
                  /\ userState'[finished'.chatId] = NoState
                  /\ queryQueue' = Tail(queryQueue) /\ runs' = runs
                  /\ Len(sent') = 1 /\ sent'[1].chatId = finished'.chatId
                  /\ (finished'.outcome = "success")
                        <=> (sent'[1].message[1] = "Successfully created"))
      ]_vars

\* A run started with the restriction A, B has failed and its chat is idle.
C17_Witness ==
    /\ finished # NoRun /\ finished.outcome = "failed"
    /\ finished.restrictions = << << <<"A">>, <<"B">> >> >>
    /\ userState[finished.chatId] = NoState

\* The characters a name may consist of: word characters, spaces and hyphens.
NameChars ==
    Range(UpperCase) \cup Range(LowerCase) \cup Range(Digits) \cup {"_", " ", "-"}

\* The text is not a name: it is blank or has a character no name may have.
InvalidName(text) ==
    \/ \A k \in 1..Len(text) : text[k] = " "
    \/ \E k \in 1..Len(text) : text[k] \notin NameChars

\* The text is not a count of groups for count participants: it is not a
\* numeral, or its number is not between 1 and count.
InvalidCount(text, count) == \A n \in 1..Min(count, 9) : text # Numeral(n)

\* The text, of one line, is not 'none' and not a pair of two different names
\* of names separated by a comma.
InvalidRestrictions(text, names) ==
    /\ text # <<"n", "o", "n", "e">>
    /\ \A k \in 1..Len(text) :
          \/ text[k] # ","
          \/ SubSeq(text, 1, k - 1) \notin names
          \/ SubSeq(text, k + 1, Len(text)) \notin names
          \/ SubSeq(text, 1, k - 1) = SubSeq(text, k + 1, Len(text))

\* The step handles a reply that is not what the state of the chat asks for.
ValidationFailure(e) ==
    \/ /\ ReplyIn(e, {"awaiting_name", "awaiting_name_for_assignment"})
       /\ InvalidName(e.msg.text)
    \/ /\ ReplyIn(e, {"awaiting_num_groups"}) /\ IsAdminCaller(e.msg.userId)
       /\ InvalidCount(e.msg.text, e.state.participantCount)
    \/ /\ ReplyIn(e, {"awaiting_restrictions"}) /\ IsAdminCaller(e.msg.userId)
       /\ InvalidRestrictions(e.msg.text,
                              Range(participantNames(e.state.participants)))

\* C18: a reply that fails validation in awaiting_name,
\* awaiting_name_for_assignment, awaiting_num_groups or awaiting_restrictions
\* (an invalid name, a count that is not a number or out of range, a text
\* that is not a pair of two different names of the roster) leaves the state
\* of the chat and its data as they were, and the store untouched.
C18_ValidationErrorKeepsState ==
    [][ValidationFailure(event') => (userState' = userState /\ StoreUntouched)]_vars


\* The text is 'skip', in any mix of cases.
IsSkip(text) ==
    /\ Len(text) = 4
    /\ text[1] \in {"s", "S"} /\ text[2] \in {"k", "K"}
    /\ text[3] \in {"i", "I"} /\ text[4] \in {"p", "P"}

\* The upserts of a participant among jobs.
Upserts(jobs) == {job \in jobs : job.query.sql = "UPSERT_PARTICIPANT"}

\* C19: the register command enters awaiting_name; a reply in awaiting_name
\* that is a valid name moves the chat to awaiting_wishlist with the name
\* stored; a reply in awaiting_wishlist, whatever its text, sends exactly one
\* upsert of a participant under the stored name, with an empty wishlist when
\* the text is 'skip'; when the upsert returns, with or without an error, the
\* chat is idle.
C19_RegistrationFlow ==
    [][
        /\ (event'.type = "update" /\ event'.msg.text = CmdRegister
               /\ ~event'.limited["register"])
              => (userState'[event'.msg.chatId] = [state |-> "awaiting_name"])
        /\ (ReplyIn(event', {"awaiting_name"}) /\ ~InvalidName(event'.msg.text))
              => (/\ userState'[event'.msg.chatId] =
                         [state |-> "awaiting_wishlist",
                          name |-> trim(event'.msg.text)]
                  /\ StoreUntouched)
        /\ ReplyIn(event', {"awaiting_wishlist"})
              => (/\ Cardinality({k \in (Len(queryQueue) + 1)..Len(queryQueue') :
                                     queryQueue'[k].query.sql = "UPSERT_PARTICIPANT"}) = 1
                  /\ \A job \in Upserts(Enqueued(queryQueue, queryQueue')) :
                        /\ job.query.name = event'.state.name
                        /\ IsSkip(event'.msg.text) => (job.query.wishlist = <<>>))
        /\ (event'.type = "result" /\ event'.handler = "register")
              => (userState'[event'.chatId] = NoState)
    ]_vars

\* An upsert under the name stored from the reply ' C' has failed, and its
\* chat is idle.
C19_Witness ==
    /\ event.type = "result" /\ event.handler = "register" /\ event.err
    /\ event.query.name = <<"C">> /\ event.state.state = "awaiting_wishlist"
    /\ userState[event.chatId] = NoState

\* The step is the return, without an error, of an upsert under a name that
\* the table held.
Reregistered(e, p) ==
    /\ e.type = "result" /\ e.handler = "register" /\ ~e.err
    /\ p \in db.tg_participants /\ p.name = e.query.name

\* C20: no two rows of the table of participants have the same name; an upsert
\* under a name the table holds overwrites the wishlist of the row of that
\* name, keeps its id and adds no row, so that an upsert with the wishlist
\* the row holds leaves the table as it was.
C20_NamesUnique ==
    [][
        /\ \A p, q \in db'.tg_participants : p.name = q.name => p = q
        /\ \A p \in db.tg_participants :
              Reregistered(event', p)
                 => (/\ db'.tg_participants =
                           (db.tg_participants \ {p})
                               \cup {[id |-> p.id, name |-> p.name,
                                      wishlist |-> event'.query.wishlist]}
                     /\ (event'.query.wishlist = p.wishlist)
                           => (db'.tg_participants = db.tg_participants))
    ]_vars

\* The name A, registered at the start with an empty wishlist and the id 1,
\* has been registered once more, with the wishlist 'tea': its row has the id
\* 1 and the new wishlist, and no row was added.
C20_Witness ==
    /\ event.type = "result" /\ event.handler = "register" /\ ~event.err
    /\ event.query.name = <<"A">>
    /\ db.tg_participants = {[id |-> 1, name |-> <<"A">>, wishlist |-> <<"t", "e", "a">>]}
    /\ db.participants_id_seq = 2

\* The step is the return of the query sql of the lookup of an assignment.
LookupResult(e, sql) ==
    e.type = "result" /\ e.handler = "myassignment" /\ e.query.sql = sql

\* The participants whose name is name, in any mix of cases.
Named(name) ==
    {p \in db.tg_participants : toLowerCase(p.name) = toLowerCase(name)}

\* The receivers of the assignments of the givers named name.
ReceiversOf(name) ==
    {r \in db.tg_participants :
        \E a \in db.tg_assignments, g \in Named(name) :
            a.giver_participant_id = g.id /\ a.receiver_participant_id = r.id}

\* The step sends message to the chat, and nothing else.
Reports(chatId, message) == sent' = <<[chatId |-> chatId, message |-> message]>>

\* C21: a lookup of a valid name reports the name and the wishlist of a
\* receiver when an assignment of a giver of that name, in any mix of cases,
\* exists; when none exists it checks the participants and reports 'no
\* assignment yet' when one has that name and 'not registered' when none
\* has; a lookup that fails reports an error; every step of the lookup leaves
\* the tables as they were, and every report leaves the chat idle.
C21_AssignmentLookup ==
    [][
        /\ (ReplyIn(event', {"awaiting_name_for_assignment"})
               /\ ~InvalidName(event'.msg.text))
              => (/\ Enqueued(queryQueue, queryQueue')
                         = {[handler |-> "myassignment", at |-> "assignment",
                             chatId |-> event'.msg.chatId,
                             sanitizedName |-> trim(event'.msg.text),
                             query |-> [sql |-> "SELECT_ASSIGNMENT",
                                        name |-> trim(event'.msg.text)]]}
                  /\ Len(queryQueue') = Len(queryQueue) + 1
                  /\ sent' = <<>> /\ db' = db)
        /\ (LookupResult(event', "SELECT_ASSIGNMENT") /\ ~event'.err)
              => (/\ db' = db
                  /\ IF ReceiversOf(event'.query.name) # {}
                     THEN /\ \E r \in ReceiversOf(event'.query.name) :
                                Reports(event'.chatId,
                                        <<"you are the Secret Angel for",
                                          event'.query.name, r.name, r.wishlist>>)
                          /\ userState'[event'.chatId] = NoState
                          /\ queryQueue' = Tail(queryQueue)
                     ELSE /\ sent' = <<>>
                          /\ Len(queryQueue') = Len(queryQueue)
                          /\ LET job == queryQueue'[Len(queryQueue')]
                             IN  /\ job.handler = "myassignment"
                                 /\ job.chatId = event'.chatId
                                 /\ job.query = [sql |-> "SELECT_PARTICIPANT",
                                                 name |-> event'.query.name])
        /\ (LookupResult(event', "SELECT_PARTICIPANT") /\ ~event'.err)
              => (/\ db' = db
                  /\ Reports(event'.chatId,
                             IF Named(event'.query.name) # {}
                             THEN <<"assignments haven't been made yet",
                                    event'.query.name>>
                             ELSE <<"couldn't find a registration",
                                    event'.query.name>>)
                  /\ userState'[event'.chatId] = NoState
                  /\ queryQueue' = Tail(queryQueue))
        /\ (event'.type = "result" /\ event'.handler = "myassignment" /\ event'.err)
              => (/\ db' = db
                  /\ Reports(event'.chatId, <<"error fetching your assignment">>)
                  /\ userState'[event'.chatId] = NoState
                  /\ queryQueue' = Tail(queryQueue))
    ]_vars

\* The lookup of 'a' has reported B, the receiver of A, and the chat is idle.
C21_Witness ==
    /\ event.type = "result" /\ event.handler = "myassignment" /\ ~event.err
    /\ event.query = [sql |-> "SELECT_ASSIGNMENT", name |-> <<"a">>]
    /\ sent = <<[chatId |-> event.chatId,
                 message |-> <<"you are the Secret Angel for", <<"a">>, <<"B">>, <<>> >>]>>
    /\ userState[event.chatId] = NoState

\* The names of the participants of the table t.
NamesIn(t) == {p.name : p \in t}

\* The step is the return, without an error, of the wipe of a cleardata that
\* the admin has confirmed.
ConfirmedWipe(e) ==
    /\ e.type = "result" /\ e.handler = "cleardata" /\ ~e.err
    /\ e.query.sql = "TRUNCATE_ALL"

\* C22: a participant is in the table once the upsert that registers it has
\* been acknowledged, and stays in it, also when the upsert has run inside the
\* transaction of a run that is rolled back later: only the wipe of a
\* confirmed cleardata removes a participant from the table.
C22_ParticipantsStay ==
    [][(~(NamesIn(db.tg_participants) \subseteq NamesIn(db'.tg_participants)))
          => ConfirmedWipe(event')]_vars

\* The text without the white space at its ends.
Stripped(text) ==
    LET inked == {k \in 1..Len(text) : text[k] \notin WhiteSpace}
    IN  IF inked = {} THEN <<>>
        ELSE SubSeq(text, CHOOSE k \in inked : \A j \in inked : k <= j,
                          CHOOSE k \in inked : \A j \in inked : k >= j)

\* The lines of the input, trimmed, without the empty ones.
NonEmptyLine(line) == line # <<>>

PairLines(input) ==
    LET lines == split(Stripped(input), "\n")
    IN  SelectSeq([k \in 1..Len(lines) |-> Stripped(lines[k])], NonEmptyLine)

\* The names of a line: what the commas separate, trimmed.
PairNames(line) ==
    LET parts == split(line, ",") IN [k \in 1..Len(parts) |-> Stripped(parts[k])]

\* The line is exactly two names, not empty, of the roster, and different.
IsPairOf(line, roster) ==
    /\ Len(PairNames(line)) = 2
    /\ \A k \in 1..2 : PairNames(line)[k] # <<>> /\ PairNames(line)[k] \in roster
    /\ PairNames(line)[1] # PairNames(line)[2]

\* What the parsing of input for roster is to return: the pairs in the order
\* of the lines, no pair for 'none' or an empty input, or the rejection of
\* the whole input.
Parsed(input, roster) ==
    IF PairLines(input) = <<>> \/ toLowerCase(Stripped(input)) = <<"n", "o", "n", "e">>
    THEN Value(<<>>)
    ELSE IF \A k \in 1..Len(PairLines(input)) : IsPairOf(PairLines(input)[k], roster)
    THEN Value([k \in 1..Len(PairLines(input)) |-> PairNames(PairLines(input)[k])])
    ELSE Null

\* C23: validateRestrictionsInput returns the pairs of names in the order of
\* the lines when every line that is not empty is two trimmed names of the
\* roster, not empty and different; the empty list for 'none', in any mix of
\* cases, and for an empty input; and rejects every other input as a whole.
C23_ParsingAtomic ==
    vr.pc = "returned" => vr.result = Parsed(vr.input, vr.validParticipants)

\* C23 as amended: the same for an input of at most
\* MAX_RESTRICTIONS_INPUT_LENGTH characters; a longer input is rejected.
C23_ParsingAtomicUpToLength ==
    vr.pc = "returned" =>
        vr.result = IF Len(vr.input) > MAX_RESTRICTIONS_INPUT_LENGTH THEN Null
                    ELSE Parsed(vr.input, vr.validParticipants)

\* Two lines, two pairs of the roster: both are returned, in the order of the
\* lines.
C23_Witness ==
    /\ vr.pc = "returned"
    /\ vr.input = <<"A", ",", "B", "\n", "B", ",", "A">>
    /\ vr.result = Value(<< <<(<<"A">>), (<<"B">>)>>, <<(<<"B">>), (<<"A">>)>> >>)

\* The handlers in flight for the chat: those that await a query of theirs.
InFlightFor(chatId) ==
    {k \in 1..Len(queryQueue) : queryQueue[k].chatId = chatId}

\* C24: the handling of an update of a chat, with its queries and the change
\* of state that follows them, is over before the next update of the chat is
\* handled: no update is handled while a handler of its chat awaits a query.
C24_NoInterleavingPerChat ==
    [][event'.type = "update" => InFlightFor(event'.msg.chatId) = {}]_vars

\* The step is the return of the statement sql of a run.
RunStatement(e, sql) ==
    e.type = "result" /\ e.handler = "run" /\ e.query.sql = sql

\* C25: the statements of a run, from its BEGIN to its COMMIT or ROLLBACK, are
\* not interleaved with those of another run: no run begins while the
\* transaction of another is open; and the committed rows of the Group,
\* Membership and Assignment tables are those of one run.
C25_RunsSerialized ==
    [][
        /\ RunStatement(event', "BEGIN") => ~txn.active
        /\ Cardinality(RunsOf(Store')) <= 1
    ]_vars

\* The step is the return of a query to a flow whose chat has been given
\* another state since: a wishlist upsert that finds the chat out of
\* awaiting_wishlist, a lookup that finds it out of
\* awaiting_name_for_assignment, a run (which cleared the state of its chat
\* when it started) that finds a state.
LateCompletion(e) ==
    /\ e.type = "result" /\ e.state # NoState
    /\ \/ e.handler = "register" /\ e.state.state # "awaiting_wishlist"
       \/ e.handler = "myassignment"
             /\ e.state.state # "awaiting_name_for_assignment"
       \/ e.handler = "run"

\* C26: a state that a command has entered stays until it is overwritten,
\* satisfied or interrupted by a command: the completion of an earlier flow
\* of the chat (the upsert of a wishlist, the lookup of an assignment, a run)
\* does not remove it.
C26_LateCompletionKeepsState ==
    [][LateCompletion(event') => (userState'[event'.chatId] = event'.state)]_vars

\* The chat of the update or of the result that the step handles.
ChatOf(e) == IF e.type = "update" THEN e.msg.chatId ELSE e.chatId

\* C27: the handling of a command or of a text of a chat, with the callbacks
\* of its queries, leaves the state of every other chat, step and data, as
\* it was.
C27_OtherChatsUntouched ==
    [][\A c \in AdminChats \ {ChatOf(event')} : userState'[c] = userState[c]]_vars

\* The callback of the wipe of chat 2 has cleared the state of chat 2, and
\* chat 1 is still asked for its restrictions, with the roster and the count
\* it had.
C27_Witness ==
    /\ event.type = "result" /\ event.handler = "cleardata" /\ event.chatId = 2
    /\ userState[2] = NoState
    /\ userState[1].state = "awaiting_restrictions"
    /\ userState[1].numGroups = 1 /\ userState[1].participantCount = 2

\* The step changes the rows of the Group, Membership or Assignment table,
\* as the session of the client sees them or as they are committed.
GroupTablesWritten ==
    \/ GroupTables(db') # GroupTables(db)
    \/ GroupTables(Store') # GroupTables(Store)

MembershipsOf(t, groupId) == {m \in t.tg_group_members : m.group_id = groupId}

\* C29: a group of fewer than 2 members gets no row: a run that has committed
\* has inserted no group of fewer than 2 members, no membership and no
\* assignment of such a group, and every committed group has at least 2
\* members.
C29_NoSmallGroupPersisted ==
    /\ \A g \in Store.tg_groups : Cardinality(MembershipsOf(Store, g.group_id)) >= 2
    /\ finished.outcome = "success" =>
          /\ \A g \in finished.inserted.tg_groups :
                Cardinality(MembershipsOf(finished.inserted, g.group_id)) >= 2
          /\ \A m \in finished.inserted.tg_group_members :
                \E g \in finished.inserted.tg_groups : g.group_id = m.group_id
          /\ \A a \in finished.inserted.tg_assignments :
                \E g \in finished.inserted.tg_groups : g.group_id = a.group_id

\* C30: the summary of a run that has committed reports the number of Group
\* rows and the number of Assignment rows that the run has inserted.
C30_SummaryCountsMatch ==
    finished.outcome = "success" =>
        \E k \in 1..Len(sent) :
            /\ sent[k].chatId = finished.chatId
            /\ sent[k].message = <<"Successfully created",
                                   Cardinality(finished.inserted.tg_groups),
                                   Cardinality(finished.inserted.tg_assignments)>>


(***************************************************************************)
(* C31: after every successful run each participant in the Participant     *)
(* table at the time of the commit has exactly one Membership row, for     *)
(* every admissible group count and every order of the registrations and   *)
(* the creategroups flow.                                                  *)
(***************************************************************************)
MembershipsOfParticipant(t, id) ==
    {m \in t.tg_group_members : m.participant_id = id}

C31_EveryParticipantInOneGroup ==
    finished.outcome = "success" =>
        \A p \in finished.tg_participants :
            Cardinality(MembershipsOfParticipant(finished.after, p.id)) = 1


(***************************************************************************)
(* Claims about the outcome and the statements of a run.                   *)
(***************************************************************************)
\* The step is the return of a statement to the handler of a run.
RunStep == event'.type = "result" /\ event'.handler = "run"

\* The handler of the run whose statement returns in the step ends in it: it
\* awaits no further statement.
RunEnds ==
    /\ RunStep
    /\ \A k \in 1..Len(queryQueue') :
          queryQueue'[k].handler = "run" => queryQueue'[k].run # Head(queryQueue).run

SuccessSummaries(s) ==
    {k \in 1..Len(s) : s[k].message[1] = "Successfully created"}

FailureNotices(s) ==
    {k \in 1..Len(s) :
        s[k].message[1] \in {"Failed to create assignments for group",
                             "No changes were saved",
                             "An unexpected error occurred"}}

\* C32: a run reports exactly one outcome: the success summary is sent in the
\* step in which the COMMIT of the run returns without error, a failure
\* notice in a step in which a ROLLBACK of the run returns and leaves no
\* transaction open; a run sends one of the two in the step in which its
\* handler ends and none before, and no other step sends either.
C32_OneOutcomePerRun ==
    [][
        /\ (SuccessSummaries(sent') \cup FailureNotices(sent') # {}) => RunStep
        /\ RunStep =>
              /\ Cardinality(SuccessSummaries(sent'))
                     + Cardinality(FailureNotices(sent'))
                   = IF RunEnds THEN 1 ELSE 0
              /\ SuccessSummaries(sent') # {} =>
                    (event'.query.sql = "COMMIT" /\ ~event'.err)
              /\ FailureNotices(sent') # {} =>
                    (event'.query.sql = "ROLLBACK" /\ ~event'.err /\ ~txn'.active)
    ]_vars

\* A run has failed on a statement that the store rejected, and has sent its
\* notice after the ROLLBACK of its catch.
C32_Witness ==
    /\ finished.outcome = "failed"
    /\ event.type = "result" /\ event.handler = "run"
    /\ event.query.sql = "ROLLBACK"
    /\ Len(sent) = 1 /\ sent[1].message = <<"An unexpected error occurred">>
    /\ ~txn.active

\* C33: the handler of a run that has issued BEGIN ends on the return of a
\* COMMIT or a ROLLBACK, with no transaction open; after a ROLLBACK of the
\* run has returned the run issues nothing but a ROLLBACK: no COMMIT and no
\* INSERT.
C33_RunClosesTransaction ==
    [][
        /\ RunEnds =>
              /\ event'.query.sql \in {"COMMIT", "ROLLBACK"}
              /\ ~txn'.active
        /\ (RunStep /\ event'.query.sql = "ROLLBACK" /\ ~RunEnds) =>
              \A k \in 1..Len(queryQueue') :
                  (/\ queryQueue'[k].handler = "run"
                   /\ queryQueue'[k].run = Head(queryQueue).run)
                      => queryQueue'[k].query.sql = "ROLLBACK"
    ]_vars

\* A run has ended on the ROLLBACK that follows a failed matching, inside the
\* loop over the groups.
C33_Witness ==
    /\ finished.outcome = "failed"
    /\ event.type = "result" /\ event.handler = "run"
    /\ event.query.sql = "ROLLBACK" /\ ~event.err
    /\ Len(sent) = 1
    /\ sent[1].message[1] = "Failed to create assignments for group"
    /\ ~txn.active

(***************************************************************************)
(* C34: whenever assignSecretAngels returns for a group of n >= 2, the     *)
(* mapping from giver to receiver is one cycle through the whole group:    *)
(* from any member, following the receivers comes back to the member after *)
(* exactly n steps and not before; for n >= 3 no two members are assigned  *)
(* to each other.                                                          *)
(***************************************************************************)
ReceiverOf(result, giver) ==
    result[CHOOSE k \in 1..Len(result) : result[k].giver = giver].receiver

\* The member reached from member by following the receivers steps times.
RECURSIVE Following(_, _, _)
Following(result, member, steps) ==
    IF steps = 0 THEN member
    ELSE ReceiverOf(result, Following(result, member, steps - 1))

C34_SingleCycle ==
    (sa.pc = "returned" /\ Len(sa.group) >= 2) =>
        LET n == Len(sa.group) IN
        /\ \A m \in Range(sa.group) :
              /\ \E k \in 1..Len(sa.result) : sa.result[k].giver = m
              /\ ReceiverOf(sa.result, m) \in Range(sa.group)
        /\ \A m \in Range(sa.group) :
              /\ Following(sa.result, m, n) = m
              /\ \A j \in 1..(n - 1) : Following(sa.result, m, j) # m
        /\ n >= 3 =>
              \A a, b \in Range(sa.group) :
                  ~(/\ ReceiverOf(sa.result, a) = b
                    /\ ReceiverOf(sa.result, b) = a)

\* A group of 4 was matched under a restriction, in an order that is not the
\* order of the group.
C34_Witness ==
    /\ sa.pc = "returned"
    /\ Len(sa.group) = 4
    /\ Len(sa.restrictions) = 1
    /\ ReceiverOf(sa.result, sa.group[1]) = sa.group[3]
    /\ Following(sa.result, sa.group[1], 2) # sa.group[1]

(***************************************************************************)
(* Claims about the summary of a run and the lookups that follow it.       *)
(***************************************************************************)
\* The rows that the query of a myassignment lookup with name (bot.js 568)
\* gets from the store as it is.
LookupRows(name) ==
    execute([db |-> db, txn |-> txn],
            [sql |-> "SELECT_ASSIGNMENT", name |-> name]).rows

\* C35: when a run has succeeded, a myassignment lookup with the name of the
\* giver of any 'giver -> receiver' line of its summary, made before any
\* later run or cleardata, finds an assignment and reports the receiver of
\* that line, also when registrations or a confirmed cleardata took place
\* between the roster snapshot of creategroups and the run.
C35_SummaryMatchesLookup ==
    finished.outcome = "success" =>
        \A k \in 1..Len(finished.assignmentsSummary) :
            LET line == finished.assignmentsSummary[k]
            IN  /\ LookupRows(line.giver) # {}
                /\ \A r \in LookupRows(line.giver) :
                      r.receiver_name = line.receiver

(***************************************************************************)
(* Claims about the admission and the dispatch of a message.               *)
(***************************************************************************)
\* The first words of the messages with which a command handler answers.
CommandAnswers ==
    {"Welcome", "What's your name?", "What name did you register with?",
     "admins only", "Reply with 'yes' to confirm"}

\* A command handler acts on the message of the step: it answers, or sends
\* the query of participants or creategroups.
HandledAsCommand(e) ==
    \/ Answered(e, CommandAnswers)
    \/ \E job \in Enqueued(queryQueue, queryQueue') :
          job.handler \in {"participants", "creategroups"}

\* The listener takes the message of the step as the reply that the state of
\* the chat expects: it answers the reply, or sends the upsert, the lookup,
\* the wipe or the BEGIN of a run.
HandledAsReply(e) ==
    \/ Answered(e, ReplyAnswers)
    \/ \E job \in Enqueued(queryQueue, queryQueue') :
          job.handler \in {"register", "myassignment", "cleardata", "run"}

\* C36: a message is handled as a command or as the reply to the active
\* state of its chat, never as both: no message on which a command handler
\* acts is also taken as the name, the wishlist, the confirmation, the group
\* count or the restrictions that the state expects.
C36_CommandOrReply ==
    [][event'.type = "update"
          => ~(HandledAsCommand(event') /\ HandledAsReply(event'))]_vars

\* The handlers that ask the rate limiter about the message of e.
AskedHandlers(e) ==
    {l \in Listeners \ {"message", "start"} : matches(e.msg.text, CommandOf(l))}

\* C37: for one command message the admission check gives one decision: the
\* listener and the handler of the command both admit it or both reject it;
\* a command for which the state of the chat is discarded is acted on by its
\* handler; and a command that is answered as rate-limited changes no state
\* of the chat.
C37_OneAdmissionDecision ==
    [][(event'.type = "update" /\ IsCommand(event'.msg.text)) =>
          /\ \A l \in AskedHandlers(event') :
                event'.limited[l] = event'.limited["message"]
          /\ (/\ event'.state # NoState
              /\ userState'[event'.msg.chatId] # event'.state)
                => HandledAsCommand(event')
          /\ Answered(event', {"sending requests too quickly"})
                => (userState'[event'.msg.chatId] = userState[event'.msg.chatId])
      ]_vars

(***************************************************************************)
(* Claims about the rate limiter, under SpecRateLimit.                     *)
(***************************************************************************)
\* The user is in a window: less than RATE_LIMIT_WINDOW has passed since the
\* first admitted call of the window.
InWindow(userId) ==
    /\ userId \in DOMAIN rl.windows
    /\ rl.now < rl.windows[userId].first + RATE_LIMIT_WINDOW

\* The times of a later call.
LaterTimes == {rl.now + d : d \in RlDelays \cup {0}}

\* What a call of the user at the time now gets from the store: the answer,
\* and the data the store then holds for the user.
Decision(rateLimitStore, userId, now) ==
    LET a == isRateLimited(rateLimitStore, userId, now)
    IN  [limited |-> a.limited, userData |-> a.rateLimitStore[UserKey(userId)]]

\* C38: rate limiting is per user and per window.  In the window that the
\* first admitted call of a user opens, and that ends RATE_LIMIT_WINDOW
\* later, at most RATE_LIMIT_MAX_REQUESTS calls of the user are admitted and
\* every further call is rejected; a rejected call leaves the reset time of
\* the window as it is; the first call at or after the reset time is
\* admitted and opens a new window; a call of one user changes no decision
\* for another user; and cleanupRateLimitStore changes no later decision.
C38_RateLimitPerUserAndWindow ==
    [][
        /\ rl'.op = "call" =>
              /\ (/\ InWindow(rl'.userId)
                  /\ rl.windows[rl'.userId].admitted >= RATE_LIMIT_MAX_REQUESTS)
                    => rl'.limited
              /\ ~rl'.limited =>
                    (rl'.windows[rl'.userId].admitted <= RATE_LIMIT_MAX_REQUESTS)
              /\ rl'.limited =>
                    (/\ UserKey(rl'.userId) \in DOMAIN rl.rateLimitStore
                     /\ rl'.rateLimitStore[UserKey(rl'.userId)].resetTime
                          = rl.rateLimitStore[UserKey(rl'.userId)].resetTime)
              /\ ~InWindow(rl'.userId) =>
                    (/\ ~rl'.limited
                     /\ rl'.rateLimitStore[UserKey(rl'.userId)].resetTime
                          = rl.now + RATE_LIMIT_WINDOW)
              /\ \A v \in RlUsers \ {rl'.userId}, t \in LaterTimes :
                    Decision(rl'.rateLimitStore, v, t)
                        = Decision(rl.rateLimitStore, v, t)
        /\ rl'.op = "cleanup" =>
              \A v \in RlUsers, t \in LaterTimes :
                  Decision(rl'.rateLimitStore, v, t)
                      = Decision(rl.rateLimitStore, v, t)
    ]_vars

\* The admin's twelfth call of a window is rejected in the last millisecond
\* of the window, in which the guest has made a first call.
C38_Witness ==
    /\ rl.op = "call" /\ rl.userId = Admin /\ rl.limited
    /\ rl.now = RATE_LIMIT_WINDOW - 1
    /\ rl.windows[Admin] = [first |-> 0, admitted |-> RATE_LIMIT_MAX_REQUESTS]
    /\ rl.rateLimitStore[UserKey(Admin)] =
           [count |-> 12, resetTime |-> RATE_LIMIT_WINDOW]
    /\ Guest \in DOMAIN rl.windows
    /\ rl.windows[Guest] = [first |-> RATE_LIMIT_WINDOW - 1, admitted |-> 1]

=============================================================================
